---- MODULE Spec2Model ----
(***************************************************************************)
(* A model of the query path of the multi-agent document pipeline:         *)
(* ValidationAgent.validate_claim, DecisionAgent.make_decision,            *)
(* MappingAgent.create_decision_trace and the audit queries, and the       *)
(* steps of AgentOrchestrator.process_query.                               *)
(*                                                                         *)
(* Python strings are TLA+ strings; substring tests, lower(), split() and  *)
(* the digit scans are computed character by character.  An entity value   *)
(* is either a string, [s |-> "46"], or a list of matches,                 *)
(* [l |-> <<"46", "30">>], as QueryParser.parse_query produces them.       *)
(* Confidence values are integers in units of 1/300 (Unit == 1.0).         *)
(***************************************************************************)
EXTENDS Integers, Sequences, FiniteSets, TLC

----------------------------------------------------------------------------
(* Python string primitives                                                *)

Char(s, i) == SubSeq(s, i, i)

\* t in s
Contains(t, s) ==
    \E i \in 1..(Len(s) - Len(t) + 1) : SubSeq(s, i, i + Len(t) - 1) = t

Upper == <<"A","B","C","D","E","F","G","H","I","J","K","L","M",
           "N","O","P","Q","R","S","T","U","V","W","X","Y","Z">>
LowerL == <<"a","b","c","d","e","f","g","h","i","j","k","l","m",
            "n","o","p","q","r","s","t","u","v","w","x","y","z">>

UpperChars == {Upper[k] : k \in 1..26}
LowerMap == [c \in UpperChars |-> LowerL[CHOOSE k \in 1..26 : Upper[k] = c]]

RECURSIVE Lower(_)
\* str.lower(): the upper-case letters replaced, one after the other
Lower(s) ==
    LET ups == {i \in 1..Len(s) : Char(s, i) \in UpperChars}
        p == CHOOSE i \in ups : \A j \in ups : i <= j
    IN  IF ups = {} THEN s
        ELSE SubSeq(s, 1, p - 1) \o LowerMap[Char(s, p)] \o Lower(SubSeq(s, p + 1, Len(s)))

Digits == <<"0","1","2","3","4","5","6","7","8","9">>

IsDigit(c) == \E k \in 1..10 : Digits[k] = c

DigitVal(c) == (CHOOSE k \in 1..10 : Digits[k] = c) - 1

RECURSIVE ParseNat(_)
\* int() of a non-empty string of decimal digits
ParseNat(s) ==
    IF Len(s) = 0 THEN 0
    ELSE 10 * ParseNat(SubSeq(s, 1, Len(s) - 1)) + DigitVal(Char(s, Len(s)))

AllDigits(s) == Len(s) > 0 /\ \A i \in 1..Len(s) : IsDigit(Char(s, i))

RECURSIVE Filter(_, _)
\* the characters of s that are in keep, in order: those of its first half,
\* then those of its second half
Filter(keep, s) ==
    IF Len(s) = 0 THEN ""
    ELSE IF Len(s) = 1 THEN (IF s \in keep THEN s ELSE "")
    ELSE Filter(keep, SubSeq(s, 1, Len(s) \div 2))
            \o Filter(keep, SubSeq(s, Len(s) \div 2 + 1, Len(s)))

RECURSIVE JoinWith(_, _)
\* sep.join(list)
JoinWith(sep, l) ==
    IF Len(l) = 0 THEN ""
    ELSE IF Len(l) = 1 THEN l[1]
    ELSE l[1] \o sep \o JoinWith(sep, Tail(l))

RECURSIVE ReprItems(_)
ReprItems(l) ==
    IF Len(l) = 0 THEN ""
    ELSE IF Len(l) = 1 THEN "'" \o l[1] \o "'"
    ELSE "'" \o l[1] \o "', " \o ReprItems(Tail(l))

IsStr(v) == DOMAIN v = {"s"}
IsList(v) == DOMAIN v = {"l"}

\* str(value)
PyStr(v) == IF IsStr(v) THEN v.s ELSE "[" \o ReprItems(v.l) \o "]"

\* bool(value): the empty string and the empty list are falsy
Truthy(v) == IF IsStr(v) THEN v.s # "" ELSE Len(v.l) > 0

\* the first whitespace-separated token of s, "" when s.split() is empty
FirstToken(s) ==
    LET starts == {i \in 1..Len(s) : Char(s, i) # " "}
    IN  IF starts = {} THEN ""
        ELSE LET a == CHOOSE i \in starts : \A j \in starts : i <= j
                 ends == {i \in a..Len(s) : i = Len(s) \/ Char(s, i + 1) = " "}
                 b == CHOOSE i \in ends : \A j \in ends : i <= j
             IN  SubSeq(s, a, b)

\* re.findall(r'\d+', s)[0], "" when there is no digit
FirstNumber(s) ==
    LET starts == {i \in 1..Len(s) : IsDigit(Char(s, i))}
    IN  IF starts = {} THEN ""
        ELSE LET a == CHOOSE i \in starts : \A j \in starts : i <= j
                 ends == {i \in a..Len(s) : i = Len(s) \/ ~IsDigit(Char(s, i + 1))}
                 b == CHOOSE i \in ends : \A j \in ends : i <= j
             IN  SubSeq(s, a, b)

\* dict.get(key, default)
Get(entities, key, default) ==
    IF key \in DOMAIN entities THEN entities[key] ELSE default

----------------------------------------------------------------------------
(* validation_agent.py: PolicyRule                                         *)

DigitChars == {Digits[k] : k \in 1..10}

\* PolicyRule._extract_numeric_value: the float, as its integer part n and
\* whether a non-zero fraction follows (f); comparisons with integer
\* thresholds need no more.
extract_numeric_value(v) ==
    LET numeric_str == Filter(DigitChars \cup {"."}, PyStr(v))
        dots == Len(Filter({"."}, numeric_str))
        p == CHOOSE i \in 1..Len(numeric_str) : Char(numeric_str, i) = "."
        ip == SubSeq(numeric_str, 1, p - 1)
        fp == SubSeq(numeric_str, p + 1, Len(numeric_str))
    IN  IF numeric_str = "" THEN [n |-> 0, f |-> FALSE]
        ELSE IF dots = 0 THEN [n |-> ParseNat(numeric_str), f |-> FALSE]
        ELSE IF dots = 1 /\ Len(numeric_str) > 1
             THEN [n |-> ParseNat(ip), f |-> fp # "" /\ ParseNat(fp) # 0]
        ELSE [n |-> 0, f |-> FALSE]   \* ValueError: 0.0

NumGeq(x, c) == x.n >= c
NumLeq(x, c) == x.n < c \/ (x.n = c /\ ~x.f)

\* _extract_policy_duration were months not converted: the branch of line 146
\* left out
extract_policy_duration_no_month(v) ==
    LET duration_str == Lower(PyStr(v))
        number == FirstNumber(duration_str)
        value == ParseNat(number)
    IN  IF number = "" THEN 0
        ELSE IF Contains("year", duration_str) \/ Contains("yr", duration_str)
             THEN value * 365
        ELSE IF Contains("week", duration_str) THEN value * 7
        ELSE value

\* PolicyRule._extract_policy_duration: the duration in days
extract_policy_duration(v) ==
    LET duration_str == Lower(PyStr(v))
        number == FirstNumber(duration_str)
        value == ParseNat(number)
    IN  IF number = "" THEN 0
        ELSE IF Contains("year", duration_str) \/ Contains("yr", duration_str)
             THEN value * 365
        ELSE IF Contains("month", duration_str) THEN value * 30
        ELSE IF Contains("week", duration_str) THEN value * 7
        ELSE value

\* the text a procedure / location condition searches in
JoinedLower(v) == IF IsList(v) THEN Lower(JoinWith(" ", v.l)) ELSE Lower(PyStr(v))

\* the members a condition value iterates over: a list's items, a string's
\* characters
Members(cv) ==
    IF "l" \in DOMAIN cv THEN {cv.l[i] : i \in 1..Len(cv.l)}
    ELSE {Char(cv.s, i) : i \in 1..Len(cv.s)}

Iterable(cv) == "l" \in DOMAIN cv \/ "s" \in DOMAIN cv
Numeric(cv) == "n" \in DOMAIN cv \/ "b" \in DOMAIN cv
NumOf(cv) == IF "n" \in DOMAIN cv THEN cv.n ELSE IF cv.b THEN 1 ELSE 0

pre_auth_procedures == <<"surgery", "operation", "transplant", "cardiac">>

\* PolicyRule._check_condition: "T", "F", or "raise" when the Python
\* expression throws (a TypeError / AttributeError on a malformed value)
check_condition(condition_type, cv, context) ==
    LET B(b) == IF b THEN "T" ELSE "F"
    IN
    IF condition_type = "min_age" THEN
        IF Numeric(cv)
        THEN B(NumGeq(extract_numeric_value(Get(context, "age", [s |-> "0"])), NumOf(cv)))
        ELSE "raise"
    ELSE IF condition_type = "max_age" THEN
        IF Numeric(cv)
        THEN B(NumLeq(extract_numeric_value(Get(context, "age", [s |-> "0"])), NumOf(cv)))
        ELSE "raise"
    ELSE IF condition_type = "gender" THEN
        LET g == Get(context, "gender", [s |-> ""])
        IN  IF ~IsStr(g) THEN "raise"
            ELSE IF "l" \in DOMAIN cv
                 THEN B(\E i \in 1..Len(cv.l) : Lower(cv.l[i]) = Lower(g.s))
            ELSE IF "s" \in DOMAIN cv THEN B(Lower(g.s) = Lower(cv.s))
            ELSE "raise"
    ELSE IF condition_type = "waiting_period_days" THEN
        IF Numeric(cv)
        THEN B(extract_policy_duration(Get(context, "policy_duration", [s |-> "0"])) >= NumOf(cv))
        ELSE "raise"
    ELSE IF condition_type = "covered_procedures" THEN
        IF Iterable(cv)
        THEN B(\E proc \in Members(cv) :
                 Contains(Lower(proc), JoinedLower(Get(context, "procedure", [s |-> ""]))))
        ELSE "raise"
    ELSE IF condition_type = "excluded_procedures" THEN
        IF Iterable(cv)
        THEN B(~\E proc \in Members(cv) :
                 Contains(Lower(proc), JoinedLower(Get(context, "procedure", [s |-> ""]))))
        ELSE "raise"
    ELSE IF condition_type = "covered_locations" THEN
        IF Iterable(cv)
        THEN B(\E loc \in Members(cv) :
                 Contains(Lower(loc), JoinedLower(Get(context, "location", [s |-> ""]))))
        ELSE "raise"
    ELSE IF condition_type = "max_claim_amount" THEN
        IF Numeric(cv)
        THEN B(NumLeq(extract_numeric_value(Get(context, "amount", [s |-> "0"])), NumOf(cv)))
        ELSE "raise"
    ELSE IF condition_type = "requires_pre_authorization" THEN
        B(~\E i \in 1..Len(pre_auth_procedures) :
            Contains(pre_auth_procedures[i], JoinedLower(Get(context, "procedure", [s |-> ""]))))
    ELSE "T"   \* unknown condition type

\* PolicyRule.evaluate: the conditions in dict order, the first one that is
\* not met or throws decides; a conditions payload that is no mapping throws
\* at .items()
evaluate(rule, context) ==
    IF ~rule.mapping THEN FALSE
    ELSE \A i \in 1..Len(rule.conditions) :
            check_condition(rule.conditions[i].type, rule.conditions[i].value, context) = "T"

----------------------------------------------------------------------------
(* validation_agent.py: ValidationAgent                                    *)

Rule(id, name, conds, prio) ==
    [rule_id |-> id, name |-> name, mapping |-> TRUE, conditions |-> conds,
     priority |-> prio]

\* ValidationAgent._initialize_default_rules
default_rules == <<
    Rule("age_limit", "Age Eligibility",
         <<[type |-> "min_age", value |-> [n |-> 18]],
           [type |-> "max_age", value |-> [n |-> 80]]>>, 1),
    Rule("waiting_period", "Waiting Period Check",
         <<[type |-> "waiting_period_days", value |-> [n |-> 90]]>>, 2),
    Rule("covered_procedures", "Procedure Coverage",
         <<[type |-> "covered_procedures", value |-> [l |->
            <<"knee surgery", "hip surgery", "cardiac surgery", "dental",
              "eye surgery", "general surgery", "orthopedic", "treatment">>]]>>, 3),
    Rule("excluded_procedures", "Excluded Procedures",
         <<[type |-> "excluded_procedures", value |-> [l |->
            <<"cosmetic", "plastic surgery", "experimental", "elective">>]]>>, 1),
    Rule("geographic_coverage", "Geographic Coverage",
         <<[type |-> "covered_locations", value |-> [l |->
            <<"pune", "mumbai", "delhi", "bangalore", "chennai",
              "hyderabad", "kolkata", "ahmedabad", "india">>]]>>, 2),
    Rule("claim_amount_limit", "Maximum Claim Amount",
         <<[type |-> "max_claim_amount", value |-> [n |-> 500000]]>>, 2),
    Rule("pre_authorization", "Pre-authorization Required",
         <<[type |-> "requires_pre_authorization", value |-> [b |-> TRUE]]>>, 3) >>

RECURSIVE sorted_by_priority(_)
\* sorted(self.rules, key=lambda r: r.priority): a stable sort
sorted_by_priority(rs) ==
    IF Len(rs) = 0 THEN <<>>
    ELSE LET lo == CHOOSE p \in {rs[i].priority : i \in 1..Len(rs)} :
                       \A i \in 1..Len(rs) : p <= rs[i].priority
             IsLo(r) == r.priority = lo
             NotLo(r) == r.priority # lo
         IN  SelectSeq(rs, IsLo) \o sorted_by_priority(SelectSeq(rs, NotLo))

coverage_terms == <<"covered", "eligible", "included", "benefits", "reimbursement",
                    "payment", "approved", "qualified">>
exclusion_terms == <<"excluded", "not covered", "limitation", "restriction",
                     "prohibited", "denied", "rejected">>

AnyTermIn(terms, text) == \E i \in 1..Len(terms) : Contains(terms[i], text)

\* ValidationAgent._contains_coverage_language
contains_coverage_language(text) == AnyTermIn(coverage_terms, text)

\* ValidationAgent._contains_exclusion_language
contains_exclusion_language(text) == AnyTermIn(exclusion_terms, text)

\* ValidationAgent._check_entity_in_clause
check_entity_in_clause(entities, clause_text) ==
    \E k \in DOMAIN entities :
        IsStr(entities[k]) /\ Contains(Lower(entities[k].s), clause_text)

\* the note _validate_against_clauses writes for one clause, "" for none
clause_note(entities, clause) ==
    LET clause_text == Lower(clause.clause_text)
    IN  IF contains_coverage_language(clause_text)
        THEN (IF check_entity_in_clause(entities, clause_text)
              THEN "supports_coverage" ELSE "neutral")
        ELSE IF contains_exclusion_language(clause_text)
        THEN (IF check_entity_in_clause(entities, clause_text)
              THEN "exclusion_risk" ELSE "")
        ELSE IF Contains("waiting", clause_text) \/ Contains("period", clause_text)
        THEN "waiting_period_relevant"
        ELSE ""

\* ValidationAgent._validate_against_clauses: key "clause_<id>" -> status;
\* a later clause with the same id overwrites an earlier one
validate_against_clauses(entities, clauses) ==
    LET noted == {i \in 1..Len(clauses) : clause_note(entities, clauses[i]) # ""}
        keys == {"clause_" \o clauses[i].clause_id : i \in noted}
        last(k) == CHOOSE i \in noted :
                      /\ "clause_" \o clauses[i].clause_id = k
                      /\ \A j \in noted :
                            "clause_" \o clauses[j].clause_id = k => j <= i
    IN  [k \in keys |-> clause_note(entities, clauses[last(k)])]

\* dict.update
Update(a, b) ==
    [k \in DOMAIN a \cup DOMAIN b |-> IF k \in DOMAIN b THEN b[k] ELSE a[k]]

critical_rule_ids == {"excluded_procedures", "age_limit"}

\* next((r for r in self.rules if r.name == rule_name), None): the index of
\* the first rule of that name in self.rules, 0 for None
rule_obj(rules, rule_name) ==
    LET hits == {i \in 1..Len(rules) : rules[i].name = rule_name}
    IN  IF hits = {} THEN 0 ELSE CHOOSE i \in hits : \A j \in hits : i <= j

\* lines 281-289 were only the age limit critical
critical_violations_age_only(rules, violated_rules) ==
    LET IsCritical(rule_name) ==
            /\ rule_obj(rules, rule_name) # 0
            /\ rules[rule_obj(rules, rule_name)].rule_id = "age_limit"
    IN  SelectSeq(violated_rules, IsCritical)

\* validate_claim, lines 281-289: the violated names that count as critical
critical_violations(rules, violated_rules) ==
    LET IsCritical(rule_name) ==
            /\ rule_obj(rules, rule_name) # 0
            /\ rules[rule_obj(rules, rule_name)].rule_id \in critical_rule_ids
    IN  SelectSeq(violated_rules, IsCritical)

RECURSIVE rule_warnings(_, _)
\* the warnings appended while the sorted rules are evaluated
rule_warnings(sorted_rules, entities) ==
    IF Len(sorted_rules) = 0 THEN <<>>
    ELSE LET r == Head(sorted_rules)
             w == IF evaluate(r, entities) THEN <<>>
                  ELSE IF r.rule_id = "waiting_period"
                       THEN <<"Policy may not have met minimum waiting period">>
                  ELSE IF r.rule_id = "excluded_procedures"
                       THEN <<"Procedure may be excluded from coverage">>
                  ELSE <<>>
         IN  w \o rule_warnings(Tail(sorted_rules), entities)

\* ValidationAgent.validate_claim
validate_claim(rules, entities, source_clauses) ==
    LET sorted_rules == sorted_by_priority(rules)
        Sat(r) == evaluate(r, entities)
        Vio(r) == ~evaluate(r, entities)
        Names(rs) == [i \in 1..Len(rs) |-> rs[i].name]
        violated_rules == Names(SelectSeq(sorted_rules, Vio))
        satisfied_rules == Names(SelectSeq(sorted_rules, Sat))
        ids == {sorted_rules[i].rule_id : i \in 1..Len(sorted_rules)}
        lastOf(id) == CHOOSE i \in 1..Len(sorted_rules) :
                         /\ sorted_rules[i].rule_id = id
                         /\ \A j \in 1..Len(sorted_rules) :
                               sorted_rules[j].rule_id = id => j <= i
        rule_details == [id \in ids |->
                            IF evaluate(sorted_rules[lastOf(id)], entities)
                            THEN "satisfied" ELSE "violated"]
    IN  [is_valid |-> Len(critical_violations(rules, violated_rules)) = 0,
         violated_rules |-> violated_rules,
         satisfied_rules |-> satisfied_rules,
         warnings |-> rule_warnings(sorted_rules, entities),
         validation_details |->
             Update(rule_details, validate_against_clauses(entities, source_clauses))]

----------------------------------------------------------------------------
(* decision_agent.py: DecisionRules                                        *)

\* 1.0 in the unit confidence values are counted in
Unit == 300

None == <<>>
Some(v) == <<v>>

RECURSIVE CountTerms(_, _)
\* sum(1 for term in terms if term in text)
CountTerms(terms, text) ==
    IF Len(terms) = 0 THEN 0
    ELSE (IF Contains(Head(terms), text) THEN 1 ELSE 0) + CountTerms(Tail(terms), text)

\* DecisionRules._evaluate_validation_factor
evaluate_validation_factor(validation_result) ==
    IF validation_result.is_valid
    THEN [factor_name |-> "validation_compliance", status |-> "positive",
          confidence_impact |-> 240,
          description |-> "All validation rules satisfied"]
    ELSE LET IsCrit(rule) == Contains("age", Lower(rule)) \/ Contains("excluded", Lower(rule))
             critical == SelectSeq(validation_result.violated_rules, IsCrit)
         IN  [factor_name |-> "validation_compliance",
              status |-> IF Len(critical) > 0 THEN "negative" ELSE "cautionary",
              confidence_impact |-> IF Len(critical) > 0 THEN 60 ELSE 150,
              description |-> ToString(Len(validation_result.violated_rules))
                                \o " validation rules violated"]

positive_terms == <<"covered", "eligible", "benefits", "included", "reimburse", "approved">>
negative_terms == <<"excluded", "not covered", "limitation", "restricted", "denied">>

\* DecisionRules._analyze_clause_sentiment
analyze_clause_sentiment(clause, entities) ==
    LET text == Lower(clause.clause_text)
        positive_score == CountTerms(positive_terms, text)
        negative_score == CountTerms(negative_terms, text)
        entity_mentioned ==
            \E k \in DOMAIN entities :
                IsStr(entities[k]) /\ Contains(Lower(entities[k].s), text)
    IN  IF entity_mentioned /\ positive_score > negative_score THEN "positive"
        ELSE IF entity_mentioned /\ negative_score > positive_score THEN "negative"
        ELSE "neutral"

Min(a, b) == IF a <= b THEN a ELSE b
Max(a, b) == IF a >= b THEN a ELSE b

\* _evaluate_clause_support without the early return of lines 141-148: no
\* clause counts as a tie
evaluate_clause_support_no_guard(clauses, entities) ==
    LET positive == Cardinality({i \in 1..Len(clauses) :
                        analyze_clause_sentiment(clauses[i], entities) = "positive"})
        negative == Cardinality({i \in 1..Len(clauses) :
                        analyze_clause_sentiment(clauses[i], entities) = "negative"})
    IN  IF positive > negative
        THEN [factor_name |-> "clause_support", status |-> "positive",
              confidence_impact |-> Min(Unit, 210 + positive * 30),
              supports_coverage |-> TRUE,
              description |-> ToString(positive) \o " clauses support coverage"]
        ELSE IF negative > positive
        THEN [factor_name |-> "clause_support", status |-> "negative",
              confidence_impact |-> Min(Unit, 90), supports_coverage |-> FALSE,
              description |-> ToString(negative) \o " clauses indicate exclusion"]
        ELSE [factor_name |-> "clause_support", status |-> "neutral",
              confidence_impact |-> Min(Unit, 150), supports_coverage |-> FALSE,
              description |-> "Mixed or unclear clause support"]

\* _evaluate_clause_support were a tie of positive and negative clauses to
\* count as support
evaluate_clause_support_tie_supports(clauses, entities) ==
    LET positive == Cardinality({i \in 1..Len(clauses) :
                        analyze_clause_sentiment(clauses[i], entities) = "positive"})
        negative == Cardinality({i \in 1..Len(clauses) :
                        analyze_clause_sentiment(clauses[i], entities) = "negative"})
    IN  IF Len(clauses) = 0
        THEN [factor_name |-> "clause_support", status |-> "negative",
              confidence_impact |-> 90, supports_coverage |-> FALSE,
              description |-> "No relevant policy clauses found"]
        ELSE IF positive >= negative
        THEN [factor_name |-> "clause_support", status |-> "positive",
              confidence_impact |-> Min(Unit, 210 + positive * 30),
              supports_coverage |-> TRUE,
              description |-> ToString(positive) \o " clauses support coverage"]
        ELSE [factor_name |-> "clause_support", status |-> "negative",
              confidence_impact |-> Min(Unit, 90), supports_coverage |-> FALSE,
              description |-> ToString(negative) \o " clauses indicate exclusion"]

\* DecisionRules._evaluate_clause_support
evaluate_clause_support(clauses, entities) ==
    LET positive == Cardinality({i \in 1..Len(clauses) :
                        analyze_clause_sentiment(clauses[i], entities) = "positive"})
        negative == Cardinality({i \in 1..Len(clauses) :
                        analyze_clause_sentiment(clauses[i], entities) = "negative"})
    IN  IF Len(clauses) = 0
        THEN [factor_name |-> "clause_support", status |-> "negative",
              confidence_impact |-> 90, supports_coverage |-> FALSE,
              description |-> "No relevant policy clauses found"]
        ELSE IF positive > negative
        THEN [factor_name |-> "clause_support", status |-> "positive",
              confidence_impact |-> Min(Unit, 210 + positive * 30),
              supports_coverage |-> TRUE,
              description |-> ToString(positive) \o " clauses support coverage"]
        ELSE IF negative > positive
        THEN [factor_name |-> "clause_support", status |-> "negative",
              confidence_impact |-> Min(Unit, 90), supports_coverage |-> FALSE,
              description |-> ToString(negative) \o " clauses indicate exclusion"]
        ELSE [factor_name |-> "clause_support", status |-> "neutral",
              confidence_impact |-> Min(Unit, 150), supports_coverage |-> FALSE,
              description |-> "Mixed or unclear clause support"]

Present(entities, names) ==
    Cardinality({e \in names : e \in DOMAIN entities /\ Truthy(entities[e])})

\* f'{completeness_score:.1%}' for score = thirtieths / 30
Percent(thirtieths) ==
    LET permille == (thirtieths * 1000 + 15) \div 30
    IN  ToString(permille \div 10) \o "." \o ToString(permille % 10) \o "%"

\* DecisionRules._evaluate_entity_completeness; the completeness score
\* required/2 * 0.8 + optional/3 * 0.2 is counted in thirtieths
evaluate_entity_completeness(entities) ==
    LET present_required == Present(entities, {"age", "procedure"})
        present_optional == Present(entities, {"gender", "location", "policy_duration"})
        completeness_score == present_required * 12 + present_optional * 2
    IN  [factor_name |-> "entity_completeness",
         status |-> IF completeness_score >= 24 THEN "complete"
                    ELSE IF completeness_score >= 18 THEN "adequate"
                    ELSE "incomplete",
         confidence_impact |-> IF completeness_score >= 24 THEN 270
                               ELSE IF completeness_score >= 18 THEN 210
                               ELSE 120,
         description |-> "Entity completeness: " \o Percent(completeness_score)]

\* repr() of a string inside an error message
Repr(tok) ==
    IF Contains("'", tok) /\ ~Contains("\"", tok) THEN "\"" \o tok \o "\""
    ELSE "'" \o tok \o "'"

IntLiteral(tok) ==
    \/ AllDigits(tok)
    \/ Len(tok) > 1 /\ Char(tok, 1) \in {"+", "-"} /\ AllDigits(SubSeq(tok, 2, Len(tok)))

IntOf(tok) ==
    IF AllDigits(tok) THEN ParseNat(tok)
    ELSE IF Char(tok, 1) = "-" THEN 0 - ParseNat(SubSeq(tok, 2, Len(tok)))
    ELSE ParseNat(SubSeq(tok, 2, Len(tok)))

\* int(str(entities['age']).split()[0]) if entities['age'] else default:
\* [v |-> the age], or [raised |-> str(e)] when split() is empty
\* (IndexError) or the token is no integer literal (ValueError)
age_of(entities, default) ==
    LET tok == FirstToken(PyStr(entities["age"]))
    IN  IF ~Truthy(entities["age"]) THEN [v |-> default]
        ELSE IF tok = "" THEN [raised |-> "list index out of range"]
        ELSE IF IntLiteral(tok) THEN [v |-> IntOf(tok)]
        ELSE [raised |-> "invalid literal for int() with base 10: " \o Repr(tok)]

Raised(r) == "raised" \in DOMAIN r

high_risk_procedures == <<"surgery", "cardiac", "brain", "cancer", "transplant">>

\* DecisionRules._assess_risk; risk_score is counted in tenths
assess_risk(entities) ==
    LET age == age_of(entities, 0)
        age_factor ==
            IF "age" \notin DOMAIN entities THEN <<>>
            ELSE IF age.v > 70 THEN <<[type |-> "age_risk", level |-> "high"]>>
            ELSE IF age.v < 25 THEN <<[type |-> "age_risk", level |-> "low"]>>
            ELSE <<>>
        procedure_factor ==
            IF "procedure" \in DOMAIN entities
               /\ AnyTermIn(high_risk_procedures, Lower(PyStr(entities["procedure"])))
            THEN <<[type |-> "procedure_risk", level |-> "high"]>>
            ELSE <<>>
        duration_str == Lower(PyStr(entities["policy_duration"]))
        months == ParseNat(Filter(DigitChars, duration_str))
        duration_factor ==
            IF "policy_duration" \in DOMAIN entities
               /\ Contains("month", duration_str) /\ months < 6
            THEN <<[type |-> "policy_duration_risk", level |-> "medium"]>>
            ELSE <<>>
        factors == age_factor \o procedure_factor \o duration_factor
        IsHigh(f) == f.level = "high"
        IsMedium(f) == f.level = "medium"
    IN  IF "age" \in DOMAIN entities /\ Raised(age) THEN age
        ELSE [overall_risk |-> IF Len(SelectSeq(factors, IsHigh)) > 0 THEN "high"
                               ELSE IF Len(duration_factor) > 0 THEN "medium"
                               ELSE "low",
              factors |-> factors,
              risk_score |-> Len(SelectSeq(factors, IsHigh)) * 3
                             + Len(SelectSeq(factors, IsMedium)) * 2]

\* procedure_amounts, in dict order
procedure_amounts == <<
    [proc_type |-> "knee", amount |-> 150000],
    [proc_type |-> "hip", amount |-> 200000],
    [proc_type |-> "cardiac", amount |-> 500000],
    [proc_type |-> "surgery", amount |-> 100000],
    [proc_type |-> "dental", amount |-> 25000],
    [proc_type |-> "eye", amount |-> 50000] >>

\* _calculate_coverage_amount without the early return of lines 325-326: a
\* missing procedure is priced at the default amount
calculate_coverage_amount_no_guard(entities) ==
    LET procedure == IF "procedure" \in DOMAIN entities
                     THEN Lower(PyStr(entities["procedure"])) ELSE ""
        hits == {i \in 1..Len(procedure_amounts) :
                    Contains(procedure_amounts[i].proc_type, procedure)}
        base_amount == IF hits = {} THEN 75000
                       ELSE procedure_amounts[CHOOSE i \in hits : \A j \in hits : i <= j].amount
        age == age_of(entities, 40)
    IN  IF "age" \notin DOMAIN entities THEN [value |-> Some(base_amount)]
        ELSE IF Raised(age) THEN age
        ELSE IF age.v > 60 THEN [value |-> Some((base_amount * 12) \div 10)]
        ELSE IF age.v < 30 THEN [value |-> Some((base_amount * 9) \div 10)]
        ELSE [value |-> Some(base_amount)]

\* DecisionRules._calculate_coverage_amount: [value |-> None or Some(amount)],
\* or [raised |-> str(e)]
calculate_coverage_amount(entities) ==
    LET procedure == Lower(PyStr(entities["procedure"]))
        hits == {i \in 1..Len(procedure_amounts) :
                    Contains(procedure_amounts[i].proc_type, procedure)}
        base_amount == IF hits = {} THEN 75000
                       ELSE procedure_amounts[CHOOSE i \in hits : \A j \in hits : i <= j].amount
        age == age_of(entities, 40)
    IN  IF "procedure" \notin DOMAIN entities THEN [value |-> None]
        ELSE IF "age" \notin DOMAIN entities THEN [value |-> Some(base_amount)]
        ELSE IF Raised(age) THEN age
        ELSE IF age.v > 60 THEN [value |-> Some((base_amount * 12) \div 10)]
        ELSE IF age.v < 30 THEN [value |-> Some((base_amount * 9) \div 10)]
        ELSE [value |-> Some(base_amount)]

\* f'{score:.2f}' for a relevance score counted in hundredths
Fmt2(score) ==
    ToString(score \div 100) \o "." \o ToString((score % 100) \div 10) \o ToString(score % 10)

\* sorted(clauses, key=relevance_score, reverse=True)[:2]: the indices of the
\* two most relevant clauses, the earlier one first among equals
top2(clauses) ==
    LET Best(idx) == CHOOSE i \in idx : \A j \in idx :
                        \/ clauses[i].relevance_score > clauses[j].relevance_score
                        \/ clauses[i].relevance_score = clauses[j].relevance_score /\ i <= j
        all == 1..Len(clauses)
    IN  IF Len(clauses) = 0 THEN <<>>
        ELSE IF Len(clauses) = 1 THEN <<1>>
        ELSE <<Best(all), Best(all \ {Best(all)})>>

decision_summary(decision) ==
    IF decision = "approved" THEN "The claim has been APPROVED based on policy analysis."
    ELSE IF decision = "rejected" THEN "The claim has been REJECTED due to policy violations."
    ELSE IF decision = "requires_review"
         THEN "The claim REQUIRES MANUAL REVIEW due to policy ambiguities."
    ELSE IF decision = "pending"
         THEN "The claim is PENDING additional information or clarification."
    ELSE "Decision status unclear."

\* DecisionRules._generate_justification: the lines of the text ('\n'.join
\* of the parts); the factor marks are written +, x and *
generate_justification(decision, factors, validation, clauses) ==
    LET Mark(f) == IF f.status = "positive" THEN "+ "
                   ELSE IF f.status = "negative" THEN "x " ELSE "* "
        factor_lines == [i \in 1..Len(factors) |-> Mark(factors[i]) \o factors[i].description]
        top == top2(clauses)
        clause_lines == [i \in 1..Len(top) |->
            ToString(i) \o ". " \o clauses[top[i]].document_name
              \o " (Relevance: " \o Fmt2(clauses[top[i]].relevance_score) \o "): "
              \o SubSeq(clauses[top[i]].clause_text, 1,
                        Min(100, Len(clauses[top[i]].clause_text))) \o "..."]
    IN  <<decision_summary(decision), "", "Key Decision Factors:">>
        \o factor_lines
        \o (IF Len(validation.violated_rules) > 0
            THEN <<"", "Policy Violations: " \o JoinWith(", ", validation.violated_rules)>>
            ELSE <<>>)
        \o (IF Len(validation.satisfied_rules) > 0
            THEN <<"Satisfied Requirements: "
                     \o JoinWith(", ", SubSeq(validation.satisfied_rules, 1,
                                              Min(3, Len(validation.satisfied_rules))))>>
            ELSE <<>>)
        \o (IF Len(clauses) > 0
            THEN <<"", "Supporting Policy Clauses:">> \o clause_lines
            ELSE <<>>)
        \o (IF Len(validation.warnings) > 0
            THEN <<"", "Warnings: " \o JoinWith(", ", validation.warnings)>>
            ELSE <<>>)

\* the branch of lines 69-81 were two violated rules enough to reject
decision_branch_two_violations(validation_result, clause_factor) ==
    IF validation_result.is_valid /\ clause_factor.supports_coverage THEN "approved"
    ELSE IF ~validation_result.is_valid /\ Len(validation_result.violated_rules) >= 2
         THEN "rejected"
    ELSE IF Len(validation_result.warnings) > 0 THEN "requires_review"
    ELSE "pending"

\* evaluate_coverage_decision, lines 69-81: the decision branch
decision_branch(validation_result, clause_factor) ==
    IF validation_result.is_valid /\ clause_factor.supports_coverage THEN "approved"
    ELSE IF ~validation_result.is_valid /\ Len(validation_result.violated_rules) > 2
         THEN "rejected"
    ELSE IF Len(validation_result.warnings) > 0 THEN "requires_review"
    ELSE "pending"

\* the modifier were every branch raised the confidence
confidence_modifier_always_raised(decision) == 30

\* evaluate_coverage_decision, lines 72-81: the modifier of each branch
confidence_modifier(decision) ==
    IF decision = "approved" THEN 30
    ELSE IF decision = "rejected" THEN 30
    ELSE IF decision = "requires_review" THEN 0 - 60
    ELSE 0 - 45

\* evaluate_coverage_decision, lines 67 and 83
final_confidence(confidence_components, modifier) ==
    LET overall_confidence ==
            (confidence_components[1] + confidence_components[2]
               + confidence_components[3]) \div Len(confidence_components)
    IN  Max(0, Min(Unit, overall_confidence + modifier))

\* evaluate_coverage_decision, lines 83-100: the DecisionResult of a branch,
\* or [raised |-> str(e)] when the amount cannot be computed
decision_result_of(decision, amount, decision_factors, risk_assessment, validation_result, source_clauses) ==
    IF Raised(amount) THEN amount
    ELSE [decision |-> decision,
          confidence_score |->
              final_confidence(<<decision_factors[1].confidence_impact,
                                 decision_factors[2].confidence_impact,
                                 decision_factors[3].confidence_impact>>,
                               confidence_modifier(decision)),
          amount |-> amount.value,
          justification |-> generate_justification(decision, decision_factors,
                                validation_result, source_clauses),
          decision_factors |-> decision_factors,
          risk_assessment |-> risk_assessment]

\* evaluate_coverage_decision, line 86: the amount, computed when the branch
\* taken approves
decision_of_factors(entities, source_clauses, validation_result, decision_factors, risk_assessment, decision) ==
    decision_result_of(decision,
        IF decision = "approved" THEN calculate_coverage_amount(entities)
        ELSE [value |-> None],
        decision_factors, risk_assessment, validation_result, source_clauses)

\* evaluate_coverage_decision, lines 63-81: the risk assessment follows the
\* three factors and raises before any decision is taken
decision_at_risk(entities, source_clauses, validation_result, decision_factors, risk_assessment) ==
    IF Raised(risk_assessment) THEN risk_assessment
    ELSE decision_of_factors(entities, source_clauses, validation_result,
             decision_factors, risk_assessment,
             decision_branch(validation_result, decision_factors[2]))

\* DecisionRules.evaluate_coverage_decision: the DecisionResult, or
\* [raised |-> str(e)] when a step throws
evaluate_coverage_decision(entities, source_clauses, validation_result) ==
    decision_at_risk(entities, source_clauses, validation_result,
        <<evaluate_validation_factor(validation_result),
          evaluate_clause_support(source_clauses, entities),
          evaluate_entity_completeness(entities)>>,
        assess_risk(entities))

----------------------------------------------------------------------------
(* decision_agent.py: DecisionAgent                                        *)

\* self.decision_history[-1000:]
decision_history_cap == 1000

\* _record_decision were the oldest records kept: self.decision_history[:1000]
record_decision_keeps_oldest(history, entities, decision, query_type) ==
    LET appended == Append(history,
            [entities |-> entities, decision |-> decision.decision,
             confidence |-> decision.confidence_score, query_type |-> query_type,
             amount |-> decision.amount])
    IN  IF Len(appended) > decision_history_cap
        THEN SubSeq(appended, 1, decision_history_cap)
        ELSE appended

\* DecisionAgent._record_decision: the history after the record is appended
record_decision(history, entities, decision, query_type) ==
    LET appended == Append(history,
            [entities |-> entities, decision |-> decision.decision,
             confidence |-> decision.confidence_score, query_type |-> query_type,
             amount |-> decision.amount])
    IN  IF Len(appended) > decision_history_cap
        THEN SubSeq(appended, Len(appended) - decision_history_cap + 1, Len(appended))
        ELSE appended

\* the default rejection with a confidence below the scale
error_result_below_scale(msg) ==
    [decision |-> "rejected",
     confidence_score |-> 0 - Unit,
     amount |-> None,
     justification |-> <<"Error in decision processing: " \o msg>>,
     decision_factors |-> <<>>,
     risk_assessment |-> [overall_risk |-> "unknown", factors |-> <<>>]]

\* make_decision, lines 447-457: the default rejection
error_result(msg) ==
    [decision |-> "rejected",
     confidence_score |-> 0,
     amount |-> None,
     justification |-> <<"Error in decision processing: " \o msg>>,
     decision_factors |-> <<>>,
     risk_assessment |-> [overall_risk |-> "unknown", factors |-> <<>>]]

\* make_decision, lines 436-445, an exception of _record_decision aside: the
\* decision is recorded and returned, and an exception goes on to the caller
returned_unguarded(history, entities, query_type, decision_result) ==
    IF Raised(decision_result)
    THEN [result |-> decision_result, decision_history |-> history]
    ELSE [result |-> decision_result,
          decision_history |->
              record_decision(history, entities, decision_result, query_type)]

\* make_decision without its try/except: the exception leaves the method
make_decision_no_except(history, entities, source_clauses, validation_result, query_type) ==
    returned_unguarded(history, entities, query_type,
        evaluate_coverage_decision(entities, source_clauses, validation_result))

\* make_decision, lines 436-457: the decision is recorded and returned, or
\* the exception caught and the default rejection returned
returned(history, entities, query_type, decision_result) ==
    IF Raised(decision_result)
    THEN [result |-> error_result(decision_result.raised),
          decision_history |-> history]
    ELSE [result |-> decision_result,
          decision_history |->
              record_decision(history, entities, decision_result, query_type)]

\* DecisionAgent.make_decision: what it returns (result) and the decision
\* history it leaves
make_decision(history, entities, source_clauses, validation_result, query_type) ==
    returned(history, entities, query_type,
        evaluate_coverage_decision(entities, source_clauses, validation_result))

----------------------------------------------------------------------------
(* mapping_agent.py: DocumentIndex and MappingAgent                        *)

\* DocumentIndex.add_clause: the clause index and the document index after
\* the clause is added
add_clause(idx, clause) ==
    LET doc == clause.document_name
        listed == IF doc \in DOMAIN idx.document_index
                  THEN idx.document_index[doc] ELSE <<>>
        ids == IF \E i \in 1..Len(listed) : listed[i] = clause.clause_id
               THEN listed ELSE Append(listed, clause.clause_id)
    IN  [clause_index |->
            Update(idx.clause_index,
                   [k \in {clause.clause_id} |->
                      [document_name |-> clause.document_name,
                       clause_text |-> clause.clause_text,
                       relevance_score |-> clause.relevance_score,
                       page_number |-> clause.page_number]]),
         document_index |-> Update(idx.document_index, [k \in {doc} |-> ids])]

RECURSIVE index_clauses(_, _)
\* create_decision_trace, lines 122-124
index_clauses(idx, clauses) ==
    IF Len(clauses) = 0 THEN idx
    ELSE index_clauses(add_clause(idx, Head(clauses)), Tail(clauses))

supports_keywords == <<"covered", "eligible", "benefits", "approved", "included">>
contradicts_keywords == <<"excluded", "not covered", "denied", "prohibited", "limitation">>
validates_keywords == <<"must", "required", "shall", "conditions", "criteria">>

\* MappingAgent._analyze_clause_relationship; strength is counted in
\* thousandths, the relevance score in hundredths
analyze_clause_relationship(clause, decision) ==
    LET clause_text == Lower(clause.clause_text)
        decision_outcome == Lower(decision.decision)
        supports_count == CountTerms(supports_keywords, clause_text)
        contradicts_count == CountTerms(contradicts_keywords, clause_text)
        validates_count == CountTerms(validates_keywords, clause_text)
        boosted == Min(1000, (clause.relevance_score + 20) * 10)
        plain == clause.relevance_score * 10
        R(t, st, ex) == [relationship_type |-> t, strength |-> st, explanation |-> ex]
    IN  IF decision_outcome = "approved" THEN
            IF supports_count > contradicts_count
            THEN R("supports", boosted, "Clause contains " \o ToString(supports_count)
                     \o " supportive terms for approved decision")
            ELSE IF contradicts_count > supports_count
            THEN R("contradicts", plain, "Clause contains " \o ToString(contradicts_count)
                     \o " contradictory terms despite approval")
            ELSE R("validates", plain, "Clause provides validation criteria for decision")
        ELSE IF decision_outcome = "rejected" THEN
            IF contradicts_count > supports_count
            THEN R("supports", boosted, "Clause contains " \o ToString(contradicts_count)
                     \o " exclusionary terms supporting rejection")
            ELSE IF supports_count > contradicts_count
            THEN R("contradicts", plain, "Clause contains " \o ToString(supports_count)
                     \o " supportive terms despite rejection")
            ELSE R("validates", plain, "Clause provides validation criteria for decision")
        ELSE IF validates_count > 0
            THEN R("validates", plain, "Clause contains " \o ToString(validates_count)
                     \o " validation requirements")
        ELSE R("references", clause.relevance_score * 8,
               "Clause provides reference information for decision")

\* MappingAgent._create_traceability_link
create_traceability_link(link_id, decision_id, clause, decision_result) ==
    LET rel == analyze_clause_relationship(clause, decision_result)
    IN  [link_id |-> link_id,
         decision_id |-> decision_id,
         source_clause_id |-> clause.clause_id,
         relationship_type |-> rel.relationship_type,
         strength |-> rel.strength,
         explanation |-> rel.explanation]

\* create_decision_trace, lines 130-136: the links of one decision, the k-th
\* clause's link under the k-th fresh uuid after first_id
source_links_of(first_id, decision_id, clauses, decision_result) ==
    [k \in 1..Len(clauses) |->
        create_traceability_link(first_id + k, decision_id, clauses[k], decision_result)]

\* line 135 were the links kept under the clause id, one link per clause
store_links_by_clause(links, source_links) ==
    Update(links, [id \in {source_links[k].source_clause_id : k \in 1..Len(source_links)} |->
                     source_links[CHOOSE k \in 1..Len(source_links) :
                                     source_links[k].source_clause_id = id]])

\* create_decision_trace, line 135: self.traceability_links[link.link_id] = link
store_links(links, source_links) ==
    Update(links, [id \in {source_links[k].link_id : k \in 1..Len(source_links)} |->
                     source_links[CHOOSE k \in 1..Len(source_links) :
                                     source_links[k].link_id = id]])

\* DocumentIndex.link_decision_to_clauses
link_decision_to_clauses(index, decision_id, clause_ids) ==
    Update(index, [k \in {decision_id} |-> clause_ids])

\* self.audit_log[-10000:]
audit_log_cap == 10000

\* MappingAgent._log_audit_event
log_audit_event(log, event_type, event_data) ==
    LET appended == Append(log, [event_type |-> event_type, event_data |-> event_data,
                                 agent |-> "mapping_agent"])
    IN  IF Len(appended) > audit_log_cap
        THEN SubSeq(appended, Len(appended) - audit_log_cap + 1, Len(appended))
        ELSE appended

\* DocumentIndex.get_clauses_by_decision
get_clauses_by_decision(index, decision_id) ==
    IF decision_id \in DOMAIN index THEN index[decision_id] ELSE <<>>

\* get_source_clauses_for_decision, lines 266-275: the link summaries attached
\* to a clause for one decision
links_for(links, clause_id, decision_id) ==
    {[relationship_type |-> links[l].relationship_type,
      strength |-> links[l].strength,
      explanation |-> links[l].explanation] :
        l \in {l \in DOMAIN links : /\ links[l].source_clause_id = clause_id
                                    /\ links[l].decision_id = decision_id}}

\* MappingAgent.get_source_clauses_for_decision: the clause ids of the clause
\* records it returns, in order
get_source_clauses_for_decision(index, cindex, decision_id) ==
    LET Known(clause_id) == clause_id \in DOMAIN cindex
    IN  SelectSeq(get_clauses_by_decision(index, decision_id), Known)

\* MappingAgent.get_decisions_using_clause: the trace ids of the decisions it
\* returns, one per link on the clause whose decision has a trace
get_decisions_using_clause(links, traces, clause_id) ==
    {CHOOSE t \in DOMAIN traces : traces[t].metadata.decision_id = links[l].decision_id :
        l \in {l \in DOMAIN links :
                 /\ links[l].source_clause_id = clause_id
                 /\ \E t \in DOMAIN traces :
                       traces[t].metadata.decision_id = links[l].decision_id}}

\* get_source_clauses_for_decision, lines 262-276: clause_data is the index
\* entry itself, so the link summaries are written into the clause index
annotate_clauses(cindex, index, links, decision_id) ==
    LET clause_ids == get_clauses_by_decision(index, decision_id)
        Listed(c) == \E i \in 1..Len(clause_ids) : clause_ids[i] = c
    IN  [c \in DOMAIN cindex |->
            IF Listed(c)
            THEN Update(cindex[c],
                        [traceability_links |-> links_for(links, c, decision_id)])
            ELSE cindex[c]]

----------------------------------------------------------------------------
(* retrieval_agent.py: QueryParser                                         *)

Query1 == "46-year-old male, knee surgery in Pune, 3-month-old insurance policy"
Query2 == "Is knee surgery covered?"
Query3 == "knee surgery at 46y"

\* QueryParser._determine_question_type
determine_question_type(query) ==
    IF AnyTermIn(<<"eligible", "qualify", "covered", "allowed">>, query) THEN "eligibility"
    ELSE IF AnyTermIn(<<"amount", "cost", "price", "pay", "$">>, query) THEN "financial"
    ELSE IF AnyTermIn(<<"when", "how long", "waiting", "period">>, query) THEN "timing"
    ELSE IF AnyTermIn(<<"where", "location", "hospital", "clinic">>, query) THEN "location"
    ELSE "general"

\* the fields of QueryParser.entity_patterns, lines 184-191
EntityTypes == {"age", "gender", "procedure", "location", "policy_duration", "amount"}

\* parse_query, lines 203-210: for each pattern the values of its matches in
\* the query, in order, as re.finditer finds them in the queries asked
entity_matches(query) ==
    CASE query = Query1 ->
            [age |-> <<"46">>, gender |-> <<"male">>,
             procedure |-> <<"knee", "surgery">>,
             location |-> <<"old male", "knee surgery in Pune">>,
             policy_duration |-> <<"3">>, amount |-> <<"46", "3">>]
      [] query = Query3 ->
            [age |-> <<"46">>, gender |-> <<>>, procedure |-> <<"knee", "surgery">>,
             location |-> <<>>, policy_duration |-> <<>>, amount |-> <<"46">>]
      [] OTHER ->
            [age |-> <<>>, gender |-> <<>>, procedure |-> <<"knee", "surgery">>,
             location |-> <<>>, policy_duration |-> <<>>, amount |-> <<>>]

\* parse_query, line 213: one match is kept as a string, several as the list
\* of them
entity_value(values) == IF Len(values) = 1 THEN [s |-> values[1]] ELSE [l |-> values]

\* parse_query, lines 202-213: the entities of the fields that matched
entities_of(matches) ==
    [entity_type \in {x \in EntityTypes : Len(matches[x]) > 0} |->
        entity_value(matches[entity_type])]

\* QueryParser.parse_query
parse_query(query) ==
    [entities |-> entities_of(entity_matches(query)),
     context |-> [question_type |-> determine_question_type(Lower(query))]]

----------------------------------------------------------------------------
(* retrieval_agent.py: RetrievalConfig and VectorStore                     *)
(*                                                                         *)
(* Weights are integers in tenths, similarities in hundredths, and hybrid  *)
(* scores, thresholds and relevance scores of this section in thousandths  *)
(* (a weight times a similarity).  A dense vector is a pair of integers of *)
(* norm 5, or the zero vector; a sparse vector maps a word to its term     *)
(* frequency, the pair of its count and the number of words.               *)

\* 1.0 as a weight, as a similarity and as a score
WeightOne == 10
SimOne == 100
One == WeightOne * SimOne

RetrievalConfig(dense_weight, sparse_weight, max_results, similarity_threshold, rerank_results) ==
    [dense_weight |-> dense_weight, sparse_weight |-> sparse_weight,
     max_results |-> max_results, similarity_threshold |-> similarity_threshold,
     rerank_results |-> rerank_results]

\* config.py, Settings: the fields validate_configuration reads and
\* AgentOrchestrator.__init__ copies
Settings(dense_weight, sparse_weight, max_results, similarity_threshold) ==
    [dense_weight |-> dense_weight, sparse_weight |-> sparse_weight,
     max_results |-> max_results, similarity_threshold |-> similarity_threshold,
     max_chunk_size |-> 512, min_chunk_size |-> 50,
     default_age_min |-> 18, default_age_max |-> 80]

\* config.py, validate_configuration: the issues found (the directories exist)
validate_configuration(settings) ==
    (IF settings.dense_weight + settings.sparse_weight # WeightOne
        THEN {"Dense weight + Sparse weight must equal 1.0"} ELSE {})
    \cup (IF settings.max_chunk_size <= settings.min_chunk_size
        THEN {"Max chunk size must be greater than min chunk size"} ELSE {})
    \cup (IF settings.similarity_threshold < 0 \/ settings.similarity_threshold > One
        THEN {"Similarity threshold must be between 0 and 1"} ELSE {})
    \cup (IF settings.default_age_min >= settings.default_age_max
        THEN {"Default minimum age must be less than maximum age"} ELSE {})

\* AgentOrchestrator.__init__: the RetrievalConfig made from the settings
retrieval_config_of(settings) ==
    RetrievalConfig(settings.dense_weight, settings.sparse_weight, settings.max_results,
                    settings.similarity_threshold, TRUE)

\* the length of the word a string that starts with one starts with
WordLen(s) ==
    CHOOSE k \in 1..Len(s) :
        /\ k = Len(s) \/ Char(s, k + 1) = " "
        /\ \A j \in 1..k : Char(s, j) # " "

RECURSIVE split(_)
\* str.split(): the whitespace-separated words
split(s) ==
    IF s = "" THEN <<>>
    ELSE IF Char(s, 1) = " " THEN split(SubSeq(s, 2, Len(s)))
    ELSE <<SubSeq(s, 1, WordLen(s))>> \o split(SubSeq(s, WordLen(s) + 1, Len(s)))

\* how many times w occurs in words
Count(w, words) == Cardinality({i \in 1..Len(words) : words[i] = w})

\* _generate_sparse_embedding, lines 99-112: the term frequencies of the words
term_frequencies(words) ==
    [w \in {words[i] : i \in {j \in 1..Len(words) : Len(words[j]) > 2}} |->
        [freq |-> Count(w, words), total_words |-> Len(words)]]

\* VectorStore._generate_sparse_embedding
generate_sparse_embedding(text) == term_frequencies(split(Lower(text)))

RECURSIVE SumOver(_, _, _)
\* the sum of vec1[w].freq * vec2[w].freq over the words w of S
SumOver(S, vec1, vec2) ==
    IF S = {} THEN 0
    ELSE LET w == CHOOSE x \in S : TRUE
         IN  vec1[w].freq * vec2[w].freq + SumOver(S \ {w}, vec1, vec2)

\* the largest k in 0..SimOne with k/SimOne <= num / sqrt(den2)
FloorRatio(num, den2) ==
    CHOOSE k \in 0..SimOne :
        /\ k * k * den2 <= SimOne * SimOne * num * num
        /\ k = SimOne \/ (k + 1) * (k + 1) * den2 > SimOne * SimOne * num * num

\* VectorStore._sparse_similarity, rounded down to a hundredth: the word
\* counts of the two texts cancel in dot_product / (norm1 * norm2)
sparse_similarity(vec1, vec2) ==
    IF DOMAIN vec1 = {} \/ DOMAIN vec2 = {} THEN 0
    ELSE FloorRatio(SumOver(DOMAIN vec1 \cap DOMAIN vec2, vec1, vec2),
                    SumOver(DOMAIN vec1, vec1, vec1) * SumOver(DOMAIN vec2, vec2, vec2))

\* np.linalg.norm of a dense vector of the model
Norm(vec) == CHOOSE n \in 0..5 : n * n = vec[1] * vec[1] + vec[2] * vec[2]

\* VectorStore._cosine_similarity
cosine_similarity(vec1, vec2) ==
    IF Norm(vec1) = 0 \/ Norm(vec2) = 0 THEN 0
    ELSE (SimOne * (vec1[1] * vec2[1] + vec1[2] * vec2[2])) \div (Norm(vec1) * Norm(vec2))

\* VectorStore._generate_dense_embedding: what the embedding model returns
\* for the texts of the model, the same vector each time a text is embedded
generate_dense_embedding(text) ==
    CASE text = "Knee surgery in Pune is covered under orthopedic benefits after 4 months"
            -> <<4, 3>>
      [] text = "Members aged 46 are eligible for dental treatment" -> <<3, 4>>
      [] text = "Knee surgery is not covered" -> <<5, 0>>
      [] Contains(Query3, text) -> <<5, 0>>
      [] Contains(Query2, text) -> <<4, 3>>
      [] OTHER -> <<0, 0>>

\* the keys of a dict kept as the sequence of its items, in insertion order
Keys(items) == {items[k].chunk_id : k \in 1..Len(items)}

\* dict[key] of such a dict
Item(items, key) == items[CHOOSE k \in 1..Len(items) : items[k].chunk_id = key]

\* dict[chunk.chunk_id] = chunk: a new key goes last, an old key keeps its place
SetItem(items, chunk) ==
    IF chunk.chunk_id \in Keys(items)
    THEN [k \in 1..Len(items) |->
             IF items[k].chunk_id = chunk.chunk_id THEN chunk ELSE items[k]]
    ELSE Append(items, chunk)

\* similarity_search, lines 127-132: the hybrid score of one stored chunk
hybrid_score(config, query_dense, query_sparse, dense_vector, sparse_vector) ==
    config.dense_weight * cosine_similarity(query_dense, dense_vector)
    + config.sparse_weight * sparse_similarity(query_sparse, sparse_vector)

\* the list with x put behind the items of the sorted list l that score no less
insert_by_score(l, x, k) == SubSeq(l, 1, k) \o <<x>> \o SubSeq(l, k + 1, Len(l))

RECURSIVE sort_by_score(_)
\* list.sort(key=score, reverse=True): stable, equal scores keep their order
sort_by_score(l) ==
    IF Len(l) <= 1 THEN l
    ELSE insert_by_score(sort_by_score(SubSeq(l, 1, Len(l) - 1)), l[Len(l)],
             Cardinality({i \in 1..(Len(l) - 1) : l[i].score >= l[Len(l)].score}))

\* l[:n]
Slice(l, n) ==
    IF n >= 0 THEN SubSeq(l, 1, Min(n, Len(l)))
    ELSE SubSeq(l, 1, Max(Len(l) + n, 0))

\* similarity_search, lines 124-135: the scores of the stored chunks that
\* reach the threshold, in the order of the documents dict
similarities(documents, dense_vectors, sparse_vectors, query_dense, query_sparse, config) ==
    LET scored(chunk) ==
            [doc_id |-> chunk.chunk_id,
             score |-> hybrid_score(config, query_dense, query_sparse,
                                    dense_vectors[chunk.chunk_id],
                                    sparse_vectors[chunk.chunk_id])]
        passes(t) == t.score >= config.similarity_threshold
    IN  SelectSeq([k \in 1..Len(documents) |-> scored(documents[k])], passes)

\* VectorStore.similarity_search on the embeddings of the query
similarity_search(documents, dense_vectors, sparse_vectors, query_dense, query_sparse, config) ==
    Slice(sort_by_score(similarities(documents, dense_vectors, sparse_vectors,
                                     query_dense, query_sparse, config)),
          config.max_results)

----------------------------------------------------------------------------
(* retrieval_agent.py: RetrievalAgent                                      *)

\* QueryParser._build_structured_query
build_structured_query(entities) ==
    LET part(label, key) ==
            IF key \in DOMAIN entities THEN <<label \o PyStr(entities[key])>> ELSE <<>>
        parts == part("Age: ", "age") \o part("Gender: ", "gender")
                 \o part("Procedure: ", "procedure") \o part("Location: ", "location")
                 \o part("Policy Duration: ", "policy_duration")
    IN  IF Len(parts) > 0 THEN JoinWith(" | ", parts) ELSE "General inquiry"

\* retrieve_relevant_documents, line 303
enhanced_query(query) ==
    query \o " " \o build_structured_query(parse_query(query).entities)

\* _rerank_results, lines 337-342: entity_weights.get(entity_type, 1.0) * 0.1
entity_bonus(entity_type) ==
    CASE entity_type = "procedure" -> 150
      [] entity_type = "age" -> 120
      [] entity_type = "location" -> 130
      [] entity_type = "policy_duration" -> 140
      [] OTHER -> 100

RECURSIVE bonus_score(_, _, _)
\* _rerank_results, lines 345-351: the bonus of one clause over the entity
\* types still to look at
bonus_score(types, entities, clause_text_lower) ==
    IF types = {} THEN 0
    ELSE LET entity_type == CHOOSE x \in types : TRUE
         IN  (IF IsStr(entities[entity_type])
                 /\ Contains(Lower(entities[entity_type].s), clause_text_lower)
              THEN entity_bonus(entity_type) ELSE 0)
             + bonus_score(types \ {entity_type}, entities, clause_text_lower)

\* _rerank_results, line 354, on one clause
boosted(clause, entities) ==
    [clause EXCEPT !.relevance_score =
        Min(One, @ + bonus_score(DOMAIN entities, entities, Lower(clause.clause_text)))]

\* results.sort(key=lambda x: x.relevance_score, reverse=True)
sort_by_relevance(results) ==
    LET keyed == sort_by_score([k \in 1..Len(results) |->
                     [score |-> results[k].relevance_score, clause |-> results[k]]])
    IN  [k \in 1..Len(results) |-> keyed[k].clause]

\* RetrievalAgent._rerank_results
rerank_results(results, parsed_query) ==
    sort_by_relevance([k \in 1..Len(results) |-> boosted(results[k], parsed_query.entities)])

\* schemas.py: SourceClause
Clause(doc, id, text, score, page) ==
    [document_name |-> doc, clause_id |-> id, clause_text |-> text,
     relevance_score |-> score, page_number |-> page]

\* retrieve_relevant_documents, lines 310-319: the SourceClause of one hit
source_clause_of(chunk, similarity_score) ==
    Clause(chunk.document_source, chunk.chunk_id, chunk.content, similarity_score,
           chunk.metadata.paragraph_index)

\* retrieve_relevant_documents, lines 310-324, on what similarity_search returned
clauses_of(documents, similar_docs, query, config) ==
    LET converted == [k \in 1..Len(similar_docs) |->
                         source_clause_of(Item(documents, similar_docs[k].doc_id),
                                          similar_docs[k].score)]
    IN  IF config.rerank_results THEN rerank_results(converted, parse_query(query))
        ELSE converted

\* RetrievalAgent.retrieve_relevant_documents
retrieve_relevant_documents(documents, dense_vectors, sparse_vectors, query, config) ==
    clauses_of(documents,
               similarity_search(documents, dense_vectors, sparse_vectors,
                                 generate_dense_embedding(enhanced_query(query)),
                                 generate_sparse_embedding(enhanced_query(query)), config),
               query, config)

----------------------------------------------------------------------------
(* semantic_chunker.py: SemanticChunkerAgent                               *)
(* Lengths are counted in characters, overlap_size in words, as the code   *)
(* counts them.                                                            *)

\* semantic_chunker.py: ChunkingConfig
ChunkingConfig(max_chunk_size, min_chunk_size, overlap_size, preserve_sentences, preserve_paragraphs) ==
    [max_chunk_size |-> max_chunk_size, min_chunk_size |-> min_chunk_size,
     overlap_size |-> overlap_size, preserve_sentences |-> preserve_sentences,
     preserve_paragraphs |-> preserve_paragraphs]

\* what \s matches in the texts chunked
Whitespace == {" ", "\n", "\t"}

\* what the pattern of line 84 keeps: \w, \s and . , ! ? : ; - ( ) [ ]
KeptChars ==
    UpperChars \cup {LowerL[k] : k \in 1..26} \cup DigitChars \cup Whitespace
        \cup {"_", ".", ",", "!", "?", ":", ";", "-", "(", ")", "[", "]"}

\* what sentence_endings matches one or more of (line 35)
SentenceEndings == {".", "!", "?"}

\* s without its leading characters that are in chars
lstrip(chars, s) ==
    IF \A i \in 1..Len(s) : Char(s, i) \in chars THEN ""
    ELSE SubSeq(s, CHOOSE i \in 1..Len(s) :
                       /\ Char(s, i) \notin chars
                       /\ \A j \in 1..(i - 1) : Char(s, j) \in chars,
                Len(s))

\* s without its trailing characters that are in chars
rstrip(chars, s) ==
    IF \A i \in 1..Len(s) : Char(s, i) \in chars THEN ""
    ELSE SubSeq(s, 1, CHOOSE i \in 1..Len(s) :
                          /\ Char(s, i) \notin chars
                          /\ \A j \in (i + 1)..Len(s) : Char(s, j) \in chars)

\* str.strip()
strip(s) == lstrip(Whitespace, rstrip(Whitespace, s))

RECURSIVE collapse_range(_, _, _)
\* what the characters a to b of s become in re.sub(r'\s+', ' ', s): a
\* character that is no whitespace stays, the first of a run of whitespace
\* becomes a blank and the rest of the run goes
collapse_range(s, a, b) ==
    IF a > b THEN ""
    ELSE IF a = b
    THEN (IF Char(s, a) \notin Whitespace THEN Char(s, a)
          ELSE IF a > 1 /\ Char(s, a - 1) \in Whitespace THEN "" ELSE " ")
    ELSE collapse_range(s, a, (a + b) \div 2) \o collapse_range(s, (a + b) \div 2 + 1, b)

\* re.sub(r'\s+', ' ', content), line 78
collapse_whitespace(s) == collapse_range(s, 1, Len(s))

\* SemanticChunkerAgent._preprocess_content; line 81 finds no line break to
\* normalize, line 78 has replaced them all
preprocess_content(content) == strip(Filter(KeptChars, collapse_whitespace(content)))

\* SemanticChunkerAgent._extract_paragraphs: the cleaned content has no line
\* break left for paragraph_breaks to split at, so the split returns it whole
extract_paragraphs(content, config) ==
    IF config.preserve_paragraphs
    THEN (IF strip(content) # "" THEN <<strip(content)>> ELSE <<>>)
    ELSE <<content>>

\* the length of the part of s before its first sentence ending
SentenceLen(s) ==
    IF \E k \in 1..Len(s) : Char(s, k) \in SentenceEndings
    THEN (CHOOSE k \in 1..Len(s) :
             /\ Char(s, k) \in SentenceEndings
             /\ \A j \in 1..(k - 1) : Char(s, j) \notin SentenceEndings) - 1
    ELSE Len(s)

RECURSIVE regex_split(_)
\* sentence_endings.split(text)
regex_split(s) ==
    IF SentenceLen(s) = Len(s) THEN <<s>>
    ELSE <<SubSeq(s, 1, SentenceLen(s))>>
            \o regex_split(lstrip(SentenceEndings, SubSeq(s, SentenceLen(s) + 1, Len(s))))

RECURSIVE word_groups(_)
\* _extract_sentences, lines 146-152: the words twenty at a time
word_groups(words) ==
    IF Len(words) = 0 THEN <<>>
    ELSE <<JoinWith(" ", SubSeq(words, 1, Min(20, Len(words))))>>
            \o word_groups(SubSeq(words, 21, Len(words)))

\* _extract_sentences, lines 159-162: the fragments that are long enough
LongEnough(sentence) == Len(sentence) > 10

stripped(sentences) == [i \in 1..Len(sentences) |-> strip(sentences[i])]

\* SemanticChunkerAgent._extract_sentences
extract_sentences(text, config) ==
    IF ~config.preserve_sentences THEN word_groups(split(text))
    ELSE SelectSeq(stripped(regex_split(text)), LongEnough)

\* SemanticChunkerAgent._create_chunk, of the only paragraph there is
DocumentChunk(source, chunk_index, content) ==
    [chunk_id |-> source \o "_p0_c" \o Digits[chunk_index + 1], content |-> content,
     document_source |-> source,
     metadata |-> [paragraph_index |-> 0, chunk_index |-> chunk_index,
                   word_count |-> Len(split(content)),
                   character_count |-> Len(content)],
     dense_embedding |-> None, sparse_embedding |-> None]

\* words[-n:], for 0 < n < len(words)
last_words(words, n) == SubSeq(words, Len(words) - n + 1, Len(words))

\* SemanticChunkerAgent._add_overlap: what the next chunk starts with
add_overlap(existing_chunks, new_sentence, config) ==
    IF Len(existing_chunks) = 0 \/ config.overlap_size = 0 THEN new_sentence
    ELSE IF Len(split(existing_chunks[Len(existing_chunks)].content)) > config.overlap_size
    THEN JoinWith(" ", last_words(split(existing_chunks[Len(existing_chunks)].content),
                                  config.overlap_size))
            \o " " \o new_sentence
    ELSE existing_chunks[Len(existing_chunks)].content \o " " \o new_sentence

\* _chunk_paragraph, lines 116-123 and 133-140: the text gathered becomes the
\* next chunk if it is long enough, and is dropped if it is not
emit(chunks, current_chunk, source, config) ==
    IF Len(current_chunk) >= config.min_chunk_size
    THEN Append(chunks, DocumentChunk(source, Len(chunks), strip(current_chunk)))
    ELSE chunks

RECURSIVE accumulate(_, _, _, _, _)
\* _chunk_paragraph, lines 106-140: the loop over the sentences and the final
\* chunk
accumulate(sentences, chunks, current_chunk, source, config) ==
    IF Len(sentences) = 0
    THEN (IF current_chunk # "" THEN emit(chunks, current_chunk, source, config) ELSE chunks)
    ELSE IF current_chunk # ""
            /\ Len(current_chunk \o " " \o Head(sentences)) > config.max_chunk_size
    THEN accumulate(Tail(sentences), emit(chunks, current_chunk, source, config),
                    add_overlap(emit(chunks, current_chunk, source, config),
                                Head(sentences), config),
                    source, config)
    ELSE accumulate(Tail(sentences), chunks,
                    IF current_chunk # "" THEN current_chunk \o " " \o Head(sentences)
                    ELSE Head(sentences),
                    source, config)

\* SemanticChunkerAgent._chunk_paragraph
chunk_paragraph(paragraph, source, config) ==
    IF Len(paragraph) <= config.max_chunk_size THEN <<DocumentChunk(source, 0, paragraph)>>
    ELSE accumulate(extract_sentences(paragraph, config), <<>>, "", source, config)

\* _optimize_chunks, lines 266-269: the chunk joined to the one before it
merged(previous, chunk) ==
    [previous EXCEPT
        !.content = previous.content \o " " \o chunk.content,
        !.metadata.word_count = Len(split(previous.content \o " " \o chunk.content)),
        !.metadata.character_count = Len(previous.content \o " " \o chunk.content)]

RECURSIVE optimize_into(_, _, _)
\* _optimize_chunks, lines 261-272: the loop over the chunks
optimize_into(optimized, chunks, config) ==
    IF Len(chunks) = 0 THEN optimized
    ELSE IF /\ Len(Head(chunks).content) < config.min_chunk_size
            /\ Len(optimized) > 0
            /\ Len(optimized[Len(optimized)].content) + Len(Head(chunks).content)
                  < config.max_chunk_size
    THEN optimize_into([optimized EXCEPT ![Len(optimized)] = merged(@, Head(chunks))],
                       Tail(chunks), config)
    ELSE optimize_into(Append(optimized, Head(chunks)), Tail(chunks), config)

\* SemanticChunkerAgent._optimize_chunks
optimize_chunks(chunks, config) == optimize_into(<<>>, chunks, config)

\* create_chunks, lines 57-62: the chunks of the paragraphs, of which there
\* is at most one
paragraph_chunks(paragraphs, source, config) ==
    IF Len(paragraphs) = 0 THEN <<>> ELSE chunk_paragraph(paragraphs[1], source, config)

\* SemanticChunkerAgent.create_chunks
create_chunks(document_content, document_source, config) ==
    optimize_chunks(
        paragraph_chunks(extract_paragraphs(preprocess_content(document_content), config),
                         document_source, config),
        config)

----------------------------------------------------------------------------
(* State                                                                   *)

VARIABLES
    rules,              \* ValidationAgent.rules
    decision_history,   \* DecisionAgent.decision_history
    pc,                 \* the position of the call in progress
    query,              \* process_query: the query text
    entities,           \* the entities of the call in progress
    source_clauses,     \* the evidence of the call in progress
    validation_result,  \* the ValidationResult of the call in progress
    decision_result,    \* the DecisionResult of the call in progress
    paths,              \* the decision_path list objects, by reference
    decision_path,      \* process_query: the reference of its decision_path
    trace_id,           \* process_query: what create_decision_trace returned
    clause_index,       \* DocumentIndex.clause_index
    document_index,     \* DocumentIndex.document_index
    decision_index,     \* DocumentIndex.decision_index
    traceability_links, \* MappingAgent.traceability_links
    decision_traces,    \* MappingAgent.decision_traces
    audit_log,          \* MappingAgent.audit_log
    uuid_next,          \* the uuids drawn so far: uuid4() never repeats
    queries_processed,  \* AgentOrchestrator.processing_stats
    config,             \* RetrievalAgent.config
    entry,              \* the program that made the agents
    documents,          \* VectorStore.documents, in insertion order
    dense_vectors,      \* VectorStore.dense_vectors
    sparse_vectors,     \* VectorStore.sparse_vectors
    ingests,            \* the process_document calls in progress
    searches,           \* the retrieve_relevant_documents calls in progress
    documents_processed, \* AgentOrchestrator.processing_stats
    chunking_config,    \* SemanticChunkerAgent.config
    document_content,   \* create_chunks: the text of the document
    created_chunks      \* create_chunks: the chunks returned

vars == <<rules, decision_history, pc, query, entities, source_clauses,
          validation_result, decision_result, paths, decision_path, trace_id,
          clause_index, document_index, decision_index, traceability_links,
          decision_traces, audit_log, uuid_next, queries_processed, config, entry,
          documents, dense_vectors, sparse_vectors, ingests, searches,
          documents_processed, chunking_config, document_content,
          created_chunks>>

agent_vars == <<rules, decision_history>>
call_vars == <<query, entities, source_clauses, validation_result, decision_result,
               decision_path, trace_id>>
mapper_vars == <<clause_index, document_index, decision_index, traceability_links,
                 decision_traces, audit_log, uuid_next>>
index_vars == <<config, entry, documents, dense_vectors, sparse_vectors, ingests,
                searches, documents_processed>>
chunker_vars == <<chunking_config, document_content, created_chunks>>

\* nothing yet: no entities, no result
Unset == <<>>

----------------------------------------------------------------------------
(* Inputs                                                                  *)

\* the most clauses one retrieval returns
MaxEvidence == 2
\* the most custom rules added
MaxCustomRules == 1


\* chunks of an ingested policy document, as retrieved (chunk ids as
\* SemanticChunkerAgent names them)
ClauseCoverage ==
    Clause("policy.txt", "policy.txt_p0_c0",
           "Knee surgery in Pune is covered under orthopedic benefits after 4 months", 90, 0)
ClauseEligible ==
    Clause("policy.txt", "policy.txt_p1_c0",
           "Members aged 46 are eligible for dental treatment", 82, 1)
ClauseExclusion ==
    Clause("policy.txt", "policy.txt_p2_c0",
           "Cosmetic surgery is excluded and such claims are denied", 75, 2)
ClauseNotCovered ==
    Clause("rider.txt", "rider.txt_p0_c0",
           "Knee surgery is not covered", 61, 0)

Clauses == {ClauseCoverage, ClauseEligible, ClauseExclusion, ClauseNotCovered}

\* what a retrieval can return: distinct chunks, the most relevant first
EvidenceLists(n) ==
    {ev \in UNION {[1..k -> Clauses] : k \in 0..n} :
        \A i \in 1..Len(ev) : \A j \in 1..Len(ev) :
            i < j => ev[i].relevance_score > ev[j].relevance_score}

\* a retrieval of four chunks that all speak for coverage in Pune
EvidenceAllPositive ==
    <<ClauseCoverage,
      Clause("policy.txt", "policy.txt_p3_c0",
             "Hospital stays in Pune are covered and reimbursed", 88, 3),
      Clause("policy.txt", "policy.txt_p4_c0",
             "Claims from network hospitals in Pune are approved within a week", 84, 4),
      Clause("rider.txt", "rider.txt_p1_c0",
             "Physiotherapy after surgery is included for members in Pune", 80, 1)>>

Absent == [absent |-> TRUE]
Str(t) == [s |-> t]

\* the entities with the given values, a field left out when its value is Absent
Entities(age, procedure, location, policy_duration) ==
    LET val == [age |-> age, procedure |-> procedure, location |-> location,
                policy_duration |-> policy_duration]
    IN  [k \in {k \in DOMAIN val : val[k] # Absent} |-> val[k]]

Ages == {Absent, Str("46"), Str("75"), Str("17"), [l |-> <<"46", "30">>]}
Procedures == {Absent, Str("knee surgery"), Str("cosmetic surgery"),
               Str("cosmetic dental treatment")}
Locations == {Absent, Str("Pune")}
Durations == {Absent, Str("4 months"), Str("2 months"), Str("13 weeks"),
              Str("1 year"), Str("100"), Str("12 weeks")}

\* hand-made ValidationResults, as a direct caller of make_decision passes
ViolatedLists ==
    { <<>>,
      <<"Waiting Period Check">>,
      <<"Geographic Coverage", "Waiting Period Check">>,
      <<"Excluded Procedures", "Procedure Coverage", "Pre-authorization Required">>,
      <<"Waiting Period Check", "Geographic Coverage", "Pre-authorization Required">> }
WarningLists ==
    { <<>>, <<"Policy may not have met minimum waiting period">> }
ValidationResults ==
    [is_valid : BOOLEAN, violated_rules : ViolatedLists,
     satisfied_rules : {<<>>}, warnings : WarningLists, validation_details : {<<>>}]

\* ValidationRule objects handed to add_custom_rule, condition already read by
\* json.loads
CustomRules ==
    { Rule("senior_plan", "Age Eligibility",
           <<[type |-> "min_age", value |-> [n |-> 60]]>>, 1),
      Rule("age_limit", "Waiting Period Check",
           <<[type |-> "max_age", value |-> [n |-> 70]]>>, 2),
      Rule("long_wait", "Extended Waiting Period",
           <<[type |-> "waiting_period_days", value |-> [n |-> 120]]>>, 2),
      \* condition '{"min_age": "sixty"}': the comparison of line 63 throws
      Rule("senior_text", "Senior Age In Words",
           <<[type |-> "min_age", value |-> [s |-> "sixty"]]>>, 2),
      \* condition '["min_age", 60]': a list has no .items() (line 49)
      [Rule("age_list", "Age Condition List", <<>>, 2) EXCEPT !.mapping = FALSE] }

----------------------------------------------------------------------------
(* Operations                                                              *)

IdleMapper ==
    /\ clause_index = <<>>
    /\ document_index = <<>>
    /\ decision_index = <<>>
    /\ traceability_links = <<>>
    /\ decision_traces = <<>>
    /\ audit_log = <<>>
    /\ uuid_next = 0

\* the most concurrent process_document calls, and retrievals
MaxIngests == 2
MaxSearches == 1

IngestIds == 1..MaxIngests
SearchIds == 1..MaxSearches

\* a call not made yet
IdleTask == [pc |-> "idle"]

\* the agents of the default settings, nothing ingested, no call in progress
IdleIndex ==
    /\ config = RetrievalConfig(7, 3, 10, 600, TRUE)
    /\ entry = "main"
    /\ documents = <<>>
    /\ dense_vectors = <<>>
    /\ sparse_vectors = <<>>
    /\ ingests = [t \in IngestIds |-> IdleTask]
    /\ searches = [t \in SearchIds |-> IdleTask]
    /\ documents_processed = 0

\* the chunker of the default settings, no document chunked
IdleChunker ==
    /\ chunking_config = ChunkingConfig(512, 50, 50, TRUE, TRUE)
    /\ document_content = ""
    /\ created_chunks = <<>>

\* ValidationAgent.add_custom_rule
AddCustomRule(rule) ==
    /\ pc = "start"
    /\ Len(rules) < Len(default_rules) + MaxCustomRules
    /\ rules' = Append(rules, rule)
    /\ UNCHANGED <<decision_history, pc, call_vars, paths, mapper_vars, queries_processed, index_vars,
                   chunker_vars>>

\* a direct call of ValidationAgent.validate_claim
ValidateClaim ==
    /\ pc = "start"
    /\ validation_result' = validate_claim(rules, entities, source_clauses)
    /\ pc' = "validated"
    /\ UNCHANGED <<agent_vars, query, entities, source_clauses, decision_result,
                   decision_path, trace_id, paths, mapper_vars, queries_processed, index_vars,
                   chunker_vars>>

\* a direct call of DecisionAgent.make_decision
MakeDecision ==
    /\ pc = "validated"
    /\ \E made \in {make_decision(decision_history, entities, source_clauses,
                                   validation_result, "coverage")} :
          /\ decision_result' = made.result
          /\ decision_history' = made.decision_history
    /\ pc' = "decided"
    /\ UNCHANGED <<rules, query, entities, source_clauses, validation_result,
                   decision_path, trace_id, paths, mapper_vars, queries_processed, index_vars,
                   chunker_vars>>

\* make_decision called on hand-made inputs
InitDecide ==
    /\ rules = default_rules
    /\ decision_history = <<>>
    /\ pc = "validated"
    /\ query = ""
    /\ entities \in {Entities(a, p, l, d) :
                       a \in Ages, p \in Procedures \cup {Str("eye surgery")},
                       l \in {Str("Pune")}, d \in {Absent, Str("4 months")}}
    /\ source_clauses \in EvidenceLists(MaxEvidence) \cup {EvidenceAllPositive}
    /\ validation_result \in ValidationResults
    /\ decision_result = Unset
    /\ paths = <<>>
    /\ decision_path = 0
    /\ trace_id = 0
    /\ IdleMapper
    /\ queries_processed = 0
    /\ IdleIndex
    /\ IdleChunker

NextDecide == MakeDecision

SpecDecide == InitDecide /\ [][NextDecide]_vars

\* validate_claim, then make_decision on its result, under the default rules
\* and any custom rules added before
InitValidate ==
    /\ rules = default_rules
    /\ decision_history = <<>>
    /\ pc = "start"
    /\ query = ""
    /\ entities \in {Entities(a, p, l, d) :
                       a \in Ages \ {Str("75")}, p \in Procedures, l \in Locations,
                       d \in Durations}
    /\ source_clauses \in EvidenceLists(1)
    /\ validation_result = Unset
    /\ decision_result = Unset
    /\ paths = <<>>
    /\ decision_path = 0
    /\ trace_id = 0
    /\ IdleMapper
    /\ queries_processed = 0
    /\ IdleIndex
    /\ IdleChunker

NextValidate ==
    \/ \E rule \in CustomRules : AddCustomRule(rule)
    \/ ValidateClaim
    \/ MakeDecision

SpecValidate == InitValidate /\ [][NextValidate]_vars

----------------------------------------------------------------------------
(* orchestrator.py: process_query, step by step, and the audit queries     *)

\* the most queries processed
MaxQueries == 2

Queries == {Query1, Query2}

\* the chunks in the vector store while the queries run
Stored == {ClauseCoverage, ClauseNotCovered}

\* what retrieve_relevant_documents can return from the store
RetrievedLists ==
    {ev \in EvidenceLists(MaxEvidence) : \A i \in 1..Len(ev) : ev[i] \in Stored}

\* decision_path.append({'step': ..., 'status': 'started'}); the timestamp is
\* left out
started(path, step) == Append(path, [step |-> step, status |-> "started"])

\* decision_path[-1].update(...) that forgets the status
completed_unmarked(path, fields) ==
    [path EXCEPT ![Len(path)] = Update(@, fields)]

\* decision_path[-1].update({'status': 'completed', ...})
completed(path, fields) ==
    [path EXCEPT ![Len(path)] = Update(@, Update([status |-> "completed"], fields))]

\* process_query, lines 145-163: step 1
ParseQuery(q) ==
    /\ pc = "idle"
    /\ queries_processed < MaxQueries
    /\ query' = q
    /\ entities' = parse_query(q).entities
    /\ decision_path' = Len(paths) + 1
    /\ paths' = Append(paths,
                   completed(started(<<>>, "query_parsing"),
                             [entities_extracted |-> Cardinality(DOMAIN entities')]))
    /\ pc' = "parsed"
    /\ UNCHANGED <<agent_vars, source_clauses, validation_result, decision_result,
                   trace_id, mapper_vars, queries_processed, index_vars,
                   chunker_vars>>

\* process_query, lines 167-179: step 2; what the store returns is left open
Retrieve(ev) ==
    /\ pc = "parsed"
    /\ source_clauses' = ev
    /\ paths' = [paths EXCEPT ![decision_path] =
                   completed(started(@, "document_retrieval"),
                             [clauses_retrieved |-> Len(ev)])]
    /\ pc' = "retrieved"
    /\ UNCHANGED <<agent_vars, query, entities, validation_result, decision_result,
                   decision_path, trace_id, mapper_vars, queries_processed, index_vars,
                   chunker_vars>>

\* process_query, lines 183-196: step 3
Validate ==
    /\ pc = "retrieved"
    /\ validation_result' = validate_claim(rules, entities, source_clauses)
    /\ paths' = [paths EXCEPT ![decision_path] =
                   completed(started(@, "policy_validation"),
                       [rules_satisfied |-> Len(validation_result'.satisfied_rules),
                        rules_violated |-> Len(validation_result'.violated_rules)])]
    /\ pc' = "checked"
    /\ UNCHANGED <<agent_vars, query, entities, source_clauses, decision_result,
                   decision_path, trace_id, mapper_vars, queries_processed, index_vars,
                   chunker_vars>>

\* process_query, lines 200-215: step 4
Decide ==
    /\ pc = "checked"
    /\ \E made \in {make_decision(decision_history, entities, source_clauses,
                          validation_result,
                          parse_query(query).context.question_type)} :
          /\ decision_result' = made.result
          /\ decision_history' = made.decision_history
    /\ paths' = [paths EXCEPT ![decision_path] =
                   completed(started(@, "decision_making"),
                       [decision |-> decision_result'.decision,
                        confidence |-> decision_result'.confidence_score])]
    /\ pc' = "made"
    /\ UNCHANGED <<rules, query, entities, source_clauses, validation_result,
                   decision_path, trace_id, mapper_vars, queries_processed, index_vars,
                   chunker_vars>>

\* MappingAgent.create_decision_trace, lines 118-170: the DecisionTrace it
\* stores; decision_path is the caller's list object, kept by reference
decision_trace(new_trace_id, decision_id, source_links) ==
    [trace_id |-> new_trace_id,
     query |-> query,
     decision |-> decision_result.decision,
     entities |-> entities,
     confidence_score |-> decision_result.confidence_score,
     source_links |-> source_links,
     decision_path |-> decision_path,
     metadata |-> [decision_id |-> decision_id,
                   amount |-> decision_result.amount,
                   risk_assessment |-> decision_result.risk_assessment]]

\* process_query, lines 219-228: step 5 up to the return of
\* create_decision_trace
CreateTrace ==
    /\ pc = "made"
    /\ paths' = [paths EXCEPT ![decision_path] = started(@, "traceability_mapping")]
    /\ LET new_trace_id == uuid_next + 1
           decision_id == uuid_next + 2
           indexed == index_clauses([clause_index |-> clause_index,
                                     document_index |-> document_index],
                                    source_clauses)
           source_links == source_links_of(decision_id, decision_id, source_clauses,
                                           decision_result)
           clause_ids == [k \in 1..Len(source_clauses) |-> source_clauses[k].clause_id]
       IN  /\ uuid_next' = decision_id + Len(source_clauses)
           /\ clause_index' = indexed.clause_index
           /\ document_index' = indexed.document_index
           /\ traceability_links' = store_links(traceability_links, source_links)
           /\ decision_index' =
                 link_decision_to_clauses(decision_index, decision_id, clause_ids)
           /\ decision_traces' =
                 Update(decision_traces,
                        [t \in {new_trace_id} |->
                            decision_trace(new_trace_id, decision_id, source_links)])
           /\ audit_log' =
                 log_audit_event(audit_log, "decision_trace_created",
                     [trace_id |-> new_trace_id, decision_id |-> decision_id,
                      decision |-> decision_result.decision,
                      source_clauses_count |-> Len(source_clauses)])
           /\ trace_id' = new_trace_id
    /\ pc' = "traced"
    /\ UNCHANGED <<agent_vars, query, entities, source_clauses, validation_result,
                   decision_result, decision_path, queries_processed, index_vars,
                   chunker_vars>>

\* process_query, lines 230-273: the rest of step 5, the statistics and the
\* return, after which the locals are gone
Finish ==
    /\ pc = "traced"
    /\ paths' = [paths EXCEPT ![decision_path] = completed(@, [trace_id |-> trace_id])]
    /\ queries_processed' = queries_processed + 1
    /\ pc' = "idle"
    /\ query' = ""
    /\ entities' = Unset
    /\ source_clauses' = Unset
    /\ validation_result' = Unset
    /\ decision_result' = Unset
    /\ decision_path' = 0
    /\ trace_id' = 0
    /\ UNCHANGED <<agent_vars, mapper_vars, index_vars,
                   chunker_vars>>

\* MappingAgent.get_source_clauses_for_decision, called between queries
GetSourceClausesForDecision(decision_id) ==
    /\ pc = "idle"
    /\ clause_index' =
          annotate_clauses(clause_index, decision_index, traceability_links, decision_id)
    /\ UNCHANGED <<agent_vars, pc, call_vars, paths, document_index, decision_index,
                   traceability_links, decision_traces, audit_log, uuid_next,
                   queries_processed, index_vars,
                   chunker_vars>>

Init ==
    /\ rules = default_rules
    /\ decision_history = <<>>
    /\ pc = "idle"
    /\ query = ""
    /\ entities = Unset
    /\ source_clauses = Unset
    /\ validation_result = Unset
    /\ decision_result = Unset
    /\ paths = <<>>
    /\ decision_path = 0
    /\ trace_id = 0
    /\ IdleMapper
    /\ queries_processed = 0
    /\ IdleIndex
    /\ IdleChunker

Next ==
    \/ \E q \in Queries : ParseQuery(q)
    \/ \E ev \in RetrievedLists : Retrieve(ev)
    \/ Validate
    \/ Decide
    \/ CreateTrace
    \/ Finish
    \/ \E d \in DOMAIN decision_index : GetSourceClausesForDecision(d)

Spec == Init /\ [][Next]_vars

----------------------------------------------------------------------------
(* The index under concurrent ingest and query calls                       *)
(*                                                                         *)
(* The calls are coroutines on one event loop: a call runs until it        *)
(* awaits the embedding of a text, the one point where it can be           *)
(* suspended, and every step below is the code between two such points.    *)

\* the chunk lists of the documents ingested
DocPolicy ==
    <<DocumentChunk("policy.txt", 0,
          "Knee surgery in Pune is covered under orthopedic benefits after 4 months"),
      DocumentChunk("policy.txt", 1, "Members aged 46 are eligible for dental treatment")>>
DocRider == <<DocumentChunk("rider.txt", 0, "Knee surgery is not covered")>>
Docs == {DocPolicy, DocRider}

\* the queries searched
SearchQueries == {Query2, Query3}

\* the weights a configuration is made of, and its max_results with its
\* similarity_threshold: neither dataclass nor constructor refuses any
WeightPairs == {<<7, 3>>, <<9, 9>>}
Breadths == {<<10, 600>>, <<10, -200>>, <<1, 600>>, <<-1, -200>>}

SettingsChoices ==
    {Settings(w[1], w[2], b[1], b[2]) : w \in WeightPairs, b \in Breadths}

RetrievalConfigs ==
    {RetrievalConfig(w[1], w[2], b[1], b[2], rr) :
        w \in WeightPairs, b \in Breadths, rr \in BOOLEAN}

\* VectorStore.add_document, lines 57-63, were the chunk stored without its
\* vectors
add_document_chunk_only(store, chunk) ==
    [store EXCEPT !.documents = SetItem(@, chunk)]

\* VectorStore.add_document, lines 51-63: the three maps after the chunk is
\* stored under its id, with its embeddings
add_document(store, chunk) ==
    [documents |->
        SetItem(store.documents,
                [chunk EXCEPT !.dense_embedding =
                                  Some(generate_dense_embedding(chunk.content)),
                              !.sparse_embedding =
                                  Some(generate_sparse_embedding(chunk.content))]),
     dense_vectors |->
        Update(store.dense_vectors,
               [id \in {chunk.chunk_id} |-> generate_dense_embedding(chunk.content)]),
     sparse_vectors |->
        Update(store.sparse_vectors,
               [id \in {chunk.chunk_id} |-> generate_sparse_embedding(chunk.content)])]

\* the three maps of the VectorStore
Store ==
    [documents |-> documents, dense_vectors |-> dense_vectors,
     sparse_vectors |-> sparse_vectors]

\* process_document, lines 91-106, and add_documents up to the embedding of
\* the first chunk
ProcessDocument(t, chunks) ==
    /\ ingests[t].pc = "idle"
    /\ ingests' = [ingests EXCEPT ![t] =
                      [pc |-> "embedding", chunks |-> chunks, i |-> 1, success_count |-> 0]]
    /\ UNCHANGED <<agent_vars, pc, call_vars, paths, mapper_vars, queries_processed,
                   config, entry, documents, dense_vectors, sparse_vectors, searches,
                   documents_processed,
                   chunker_vars>>

\* add_documents, lines 276-281, from the return of one add_document to the
\* embedding of the next chunk, or process_document to its return (lines
\* 108-124) after the last
Continue(t, added) ==
    IF ingests[t].i < Len(ingests[t].chunks)
    THEN /\ ingests' = [ingests EXCEPT ![t].i = @ + 1, ![t].success_count = @ + added]
         /\ UNCHANGED documents_processed
    ELSE /\ ingests' = [ingests EXCEPT ![t] =
                           [pc |-> "done", chunks |-> @.chunks,
                            success_count |-> @.success_count + added,
                            result |-> [success |-> TRUE, chunks |-> Len(@.chunks)]]]
         /\ documents_processed' = documents_processed + 1

\* add_document resumed with the dense embedding of its chunk: the three
\* writes, True, and on to the next suspension
AddDocument(t) ==
    /\ ingests[t].pc = "embedding"
    /\ \E store \in {add_document(Store, ingests[t].chunks[ingests[t].i])} :
          /\ documents' = store.documents
          /\ dense_vectors' = store.dense_vectors
          /\ sparse_vectors' = store.sparse_vectors
    /\ Continue(t, 1)
    /\ UNCHANGED <<agent_vars, pc, call_vars, paths, mapper_vars, queries_processed,
                   config, entry, searches,
                   chunker_vars>>

\* add_document when embedding its chunk raises: lines 67-69, False
AddDocumentFails(t) ==
    /\ ingests[t].pc = "embedding"
    /\ Continue(t, 0)
    /\ UNCHANGED <<agent_vars, pc, call_vars, paths, mapper_vars, queries_processed,
                   config, entry, documents, dense_vectors, sparse_vectors, searches,
                   chunker_vars>>

\* retrieve_relevant_documents, lines 299-307, up to the embedding of the
\* query in similarity_search
RetrieveStart(t, q) ==
    /\ searches[t].pc = "idle"
    /\ searches' = [searches EXCEPT ![t] = [pc |-> "embedding", query |-> q]]
    /\ UNCHANGED <<agent_vars, pc, call_vars, paths, mapper_vars, queries_processed,
                   config, entry, documents, dense_vectors, sparse_vectors, ingests,
                   documents_processed,
                   chunker_vars>>

\* similarity_search were it to keep the embedding of the query in the store
SimilaritySearch_caching(t) ==
    /\ searches[t].pc = "embedding"
    /\ searches' = [searches EXCEPT ![t] =
                       [pc |-> "done", query |-> @.query,
                        result |-> retrieve_relevant_documents(documents, dense_vectors,
                                       sparse_vectors, @.query, config)]]
    /\ dense_vectors' =
          Update(dense_vectors,
                 [id \in {searches[t].query} |->
                     generate_dense_embedding(enhanced_query(searches[t].query))])
    /\ UNCHANGED <<agent_vars, pc, call_vars, paths, mapper_vars, queries_processed,
                   config, entry, documents, sparse_vectors, ingests,
                   documents_processed,
                   chunker_vars>>

\* similarity_search resumed with the dense embedding of the query, and
\* retrieve_relevant_documents to its return
SimilaritySearch(t) ==
    /\ searches[t].pc = "embedding"
    /\ searches' = [searches EXCEPT ![t] =
                       [pc |-> "done", query |-> @.query,
                        result |-> retrieve_relevant_documents(documents, dense_vectors,
                                       sparse_vectors, @.query, config)]]
    /\ UNCHANGED <<agent_vars, pc, call_vars, paths, mapper_vars, queries_processed,
                   config, entry, documents, dense_vectors, sparse_vectors, ingests,
                   documents_processed,
                   chunker_vars>>

\* similarity_search when embedding the query raises: line 144 returns [],
\* and so does retrieve_relevant_documents
SimilaritySearchFails(t) ==
    /\ searches[t].pc = "embedding"
    /\ searches' = [searches EXCEPT ![t] =
                       [pc |-> "done", query |-> @.query, result |-> <<>>]]
    /\ UNCHANGED <<agent_vars, pc, call_vars, paths, mapper_vars, queries_processed,
                   config, entry, documents, dense_vectors, sparse_vectors, ingests,
                   documents_processed,
                   chunker_vars>>

\* the caller abandons the query while it is suspended: its locals are gone
Abandon(t) ==
    /\ searches[t].pc = "embedding"
    /\ searches' = [searches EXCEPT ![t] = [pc |-> "abandoned", query |-> @.query]]
    /\ UNCHANGED <<agent_vars, pc, call_vars, paths, mapper_vars, queries_processed,
                   config, entry, documents, dense_vectors, sparse_vectors, ingests,
                   documents_processed,
                   chunker_vars>>

\* the agents as main.py, test_system.py or a caller of RetrievalAgent(config)
\* made them: main.py exits when validate_configuration finds an issue
\* (lines 25-30), the others validate nothing
InitIndex ==
    /\ rules = default_rules
    /\ decision_history = <<>>
    /\ pc = "idle"
    /\ query = ""
    /\ entities = Unset
    /\ source_clauses = Unset
    /\ validation_result = Unset
    /\ decision_result = Unset
    /\ paths = <<>>
    /\ decision_path = 0
    /\ trace_id = 0
    /\ IdleMapper
    /\ queries_processed = 0
    /\ entry \in {"main", "test_system", "agent"}
    /\ config \in
          CASE entry = "main" ->
                  {retrieval_config_of(s) :
                      s \in {x \in SettingsChoices : validate_configuration(x) = {}}}
            [] entry = "test_system" -> {retrieval_config_of(s) : s \in SettingsChoices}
            [] OTHER -> RetrievalConfigs
    /\ documents = <<>>
    /\ dense_vectors = <<>>
    /\ sparse_vectors = <<>>
    /\ ingests = [t \in IngestIds |-> IdleTask]
    /\ searches = [t \in SearchIds |-> IdleTask]
    /\ documents_processed = 0
    /\ IdleChunker

NextIndex ==
    \/ \E t \in IngestIds, chunks \in Docs : ProcessDocument(t, chunks)
    \/ \E t \in IngestIds : AddDocument(t)
    \/ \E t \in IngestIds : AddDocumentFails(t)
    \/ \E t \in SearchIds, q \in SearchQueries : RetrieveStart(t, q)
    \/ \E t \in SearchIds : SimilaritySearch(t)
    \/ \E t \in SearchIds : SimilaritySearchFails(t)
    \/ \E t \in SearchIds : Abandon(t)

SpecIndex == InitIndex /\ [][NextIndex]_vars

----------------------------------------------------------------------------
(* The chunker on documents of a few sentences                             *)

\* the most sentences in a document
MaxSentences == 3

\* sentences of policy documents: of usual length, shorter than the smallest
\* chunk, a fragment _extract_sentences filters out, with a character
\* _preprocess_content removes, and longer than the largest chunk
PolicySentences ==
    {"Knee surgery is covered", "Hip is covered", "See rider",
     "Claims over $500 need approval", "Cosmetic surgery is excluded under every plan"}

\* what follows a sentence: the next one on the same line, or a new paragraph
Separators == {". ", ".\n\n"}

RECURSIVE Contents(_, _)
\* the documents of n sentences
Contents(n, sep) ==
    IF n = 1 THEN {s \o "." : s \in PolicySentences}
    ELSE {s \o sep \o rest : s \in PolicySentences, rest \in Contents(n - 1, sep)}

DocumentContents == UNION {Contents(n, sep) : n \in 1..MaxSentences, sep \in Separators}

\* the configurations the chunker is made with: without overlap, with an
\* overlap of some and of all the words of a sentence, with sentences and
\* paragraphs not preserved
ChunkingConfigs ==
    {ChunkingConfig(40, 15, 0, TRUE, TRUE), ChunkingConfig(40, 15, 2, TRUE, TRUE),
     ChunkingConfig(40, 15, 4, TRUE, TRUE), ChunkingConfig(40, 15, 2, FALSE, TRUE),
     ChunkingConfig(40, 15, 2, TRUE, FALSE)}

\* a call of SemanticChunkerAgent.create_chunks
CreateChunks ==
    /\ pc = "idle"
    /\ created_chunks' = create_chunks(document_content, "policy.txt", chunking_config)
    /\ pc' = "chunked"
    /\ UNCHANGED <<agent_vars, call_vars, paths, mapper_vars, queries_processed, index_vars,
                   chunking_config, document_content>>

InitChunk ==
    /\ rules = default_rules
    /\ decision_history = <<>>
    /\ pc = "idle"
    /\ query = ""
    /\ entities = Unset
    /\ source_clauses = Unset
    /\ validation_result = Unset
    /\ decision_result = Unset
    /\ paths = <<>>
    /\ decision_path = 0
    /\ trace_id = 0
    /\ IdleMapper
    /\ queries_processed = 0
    /\ IdleIndex
    /\ chunking_config \in ChunkingConfigs
    /\ document_content \in DocumentContents
    /\ created_chunks = <<>>

NextChunk == CreateChunks

SpecChunk == InitChunk /\ [][NextChunk]_vars

----------------------------------------------------------------------------
(* Properties of make_decision (SpecDecide)                                *)

decided == pc = "decided"

\* the call took the except branch of make_decision
errored ==
    /\ "risk_assessment" \in DOMAIN decision_result
    /\ decision_result.risk_assessment.overall_risk = "unknown"

\* C1 as the specification words it: the amount is non-null exactly when the
\* decision is 'approved'.
C1_AmountIffApproved ==
    decided => ((decision_result.amount # None) <=> (decision_result.decision = "approved"))

\* C1: the amount of a DecisionResult is non-null exactly when the decision is
\* 'approved' and the entities hold a procedure; every other decision, and an
\* approval of entities without a procedure, carries no amount.
C1_AmountIffApprovedWithProcedure ==
    decided =>
        ((decision_result.amount # None)
            <=> (decision_result.decision = "approved" /\ "procedure" \in DOMAIN entities))

\* an approved knee surgery at age 46 carries the knee amount
C1_ApprovedWithAmount ==
    /\ decided
    /\ decision_result.decision = "approved"
    /\ decision_result.amount = Some(150000)

\* C2: on the non-error path the decision is the first matching branch:
\* approved when the validation is valid and the clause factor supports
\* coverage, else rejected when it is invalid with more than two violated
\* rules, else requires_review when it has warnings, else pending.
C2_FirstMatchingBranch ==
    (decided /\ ~errored) =>
        LET supports == decision_result.decision_factors[2].supports_coverage
        IN  decision_result.decision =
                CASE validation_result.is_valid /\ supports -> "approved"
                  [] ~(validation_result.is_valid /\ supports)
                       /\ ~validation_result.is_valid
                       /\ Len(validation_result.violated_rules) > 2 -> "rejected"
                  [] ~(validation_result.is_valid /\ supports)
                       /\ ~(~validation_result.is_valid
                              /\ Len(validation_result.violated_rules) > 2)
                       /\ Len(validation_result.warnings) > 0 -> "requires_review"
                  [] OTHER -> "pending"

\* an invalid validation with two violated rules and a warning goes to review
C2_TwoViolationsReviewed ==
    /\ decided /\ ~errored
    /\ ~validation_result.is_valid
    /\ Len(validation_result.violated_rules) = 2
    /\ decision_result.decision = "requires_review"

\* the age cannot be read as an integer: _assess_risk raises
AgeUnreadable ==
    /\ "age" \in DOMAIN entities
    /\ IsList(entities.age)

\* C4: make_decision always returns a DecisionResult; when the evaluation
\* raises, the result is 'rejected' with confidence 0.0, no amount, and a
\* justification line holding the text of the error.
C4_NeverRaises ==
    decided =>
        /\ DOMAIN decision_result =
              {"decision", "confidence_score", "amount", "justification",
               "decision_factors", "risk_assessment"}
        /\ AgeUnreadable =>
              /\ decision_result.decision = "rejected"
              /\ decision_result.confidence_score = 0
              /\ decision_result.amount = None
              /\ \E i \in 1..Len(decision_result.justification) :
                    Contains("invalid literal for int() with base 10: \"['46',\"",
                             decision_result.justification[i])

\* an age that is a list of two matches has been decided
C4_ErrorRejected ==
    /\ decided
    /\ AgeUnreadable
    /\ decision_result.decision = "rejected"
    /\ decision_history = <<>>

\* C5: the confidence of every DecisionResult lies in [0.0, 1.0], on the
\* error path too.
C5_ConfidenceInRange ==
    decided =>
        /\ decision_result.confidence_score >= 0
        /\ decision_result.confidence_score <= Unit

\* an approval decided with a confidence above 0.9
C5_HighConfidence ==
    /\ decided /\ ~errored
    /\ decision_result.decision = "approved"
    /\ decision_result.confidence_score > 270

\* C7: with no evidence the clause factor has impact 0.3 and does not support
\* coverage, and the decision is never 'approved'.
C7_NoEvidenceNeverApproved ==
    (decided /\ source_clauses = <<>>) =>
        /\ decision_result.decision \in {"pending", "requires_review", "rejected"}
        /\ ~errored =>
              /\ decision_result.decision_factors[2].confidence_impact = 90
              /\ decision_result.decision_factors[2].supports_coverage = FALSE

\* a valid claim without evidence stays pending
C7_NoEvidencePending ==
    /\ decided /\ ~errored
    /\ source_clauses = <<>>
    /\ validation_result.is_valid
    /\ decision_result.decision = "pending"

----------------------------------------------------------------------------
(* Properties of validate_claim followed by make_decision (SpecValidate)   *)

validated == pc \in {"validated", "decided"}

\* the procedure text holds one of the excluded keywords of rule
\* excluded_procedures
ProcedureExcluded ==
    /\ "procedure" \in DOMAIN entities
    /\ \E kw \in {"cosmetic", "plastic surgery", "experimental", "elective"} :
          Contains(kw, Lower(entities.procedure.s))

ExcludedRuleViolated ==
    /\ \E i \in 1..Len(validation_result.violated_rules) :
          validation_result.violated_rules[i] = "Excluded Procedures"
    /\ ~validation_result.is_valid

\* C3 as the specification words it: an excluded procedure is rejected
\* whatever else the claim holds.
C3_ExcludedAlwaysRejected ==
    (decided /\ ProcedureExcluded) =>
        (ExcludedRuleViolated /\ decision_result.decision = "rejected")

\* C3: a procedure with an excluded keyword violates rule Excluded Procedures
\* and makes is_valid false, so the claim is never approved; make_decision
\* rejects it when more than two rules are violated (as for 'cosmetic
\* surgery', which also fails Procedure Coverage and Pre-authorization) or the
\* evaluation raises, and otherwise returns 'requires_review'.
C3_ExcludedNeverApproved ==
    (validated /\ ProcedureExcluded) =>
        /\ ExcludedRuleViolated
        /\ decided =>
              /\ decision_result.decision =
                    IF errored \/ Len(validation_result.violated_rules) > 2
                    THEN "rejected" ELSE "requires_review"
              /\ entities.procedure.s = "cosmetic surgery" =>
                    decision_result.decision = "rejected"

\* the cosmetic surgery of a 46 year old has been rejected by the branch
C3_CosmeticSurgeryRejected ==
    /\ decided /\ ~errored
    /\ ProcedureExcluded
    /\ entities.procedure.s = "cosmetic surgery"
    /\ ExcludedRuleViolated
    /\ decision_result.decision = "rejected"

\* the ids of the rule objects whose evaluation fails
ViolatedIds ==
    {rules[i].rule_id : i \in {j \in 1..Len(rules) : ~evaluate(rules[j], entities)}}

\* C6: is_valid is false exactly when a violated rule has its id in
\* {excluded_procedures, age_limit}, for the default and for custom rules.
C6_InvalidIffCriticalViolated ==
    validated =>
        ((~validation_result.is_valid) <=> (ViolatedIds \cap critical_rule_ids # {}))

\* the days a duration of n units stands for
DaysOf(n, unit) ==
    CASE unit = "year" -> n * 365
      [] unit = "month" -> n * 30
      [] unit = "week" -> n * 7
      [] OTHER -> n

\* the durations claimed, read by hand
DurationRead ==
    [t \in {"4 months", "2 months", "13 weeks", "12 weeks", "1 year", "100"} |->
        CASE t = "4 months" -> DaysOf(4, "month")
          [] t = "2 months" -> DaysOf(2, "month")
          [] t = "13 weeks" -> DaysOf(13, "week")
          [] t = "12 weeks" -> DaysOf(12, "week")
          [] t = "1 year" -> DaysOf(1, "year")
          [] t = "100" -> DaysOf(100, "days")]

ScenarioA ==
    Entities(Str("46"), Str("knee surgery"), Str("Pune"), Str("4 months"))

\* C8: the waiting-period rule is satisfied exactly when the claimed duration
\* in days (years x 365, months x 30, weeks x 7, else the number itself) is at
\* least the 90 days required; a 46 year old's knee surgery in Pune on a 4
\* months old policy satisfies the waiting period and the exclusion rule and
\* is valid under the default rules.
C8_WaitingPeriodInDays ==
    validated =>
        /\ "policy_duration" \in DOMAIN entities =>
              ((validation_result.validation_details["waiting_period"] = "satisfied")
                  <=> (DurationRead[entities.policy_duration.s] >= 90))
        /\ (entities = ScenarioA /\ rules = default_rules) =>
              /\ validation_result.validation_details["waiting_period"] = "satisfied"
              /\ validation_result.validation_details["excluded_procedures"] = "satisfied"
              /\ validation_result.is_valid

\* the scenario has been validated under the default rules
C8_ScenarioValid ==
    /\ validated
    /\ entities = ScenarioA /\ rules = default_rules
    /\ validation_result.is_valid
    /\ validation_result.validation_details["waiting_period"] = "satisfied"

----------------------------------------------------------------------------
(* Properties of the traces kept by the MappingAgent (Spec)                *)

\* the clause ids a decision's evidence query returns
SourceClauseIds(decision_id) ==
    LET returned_ids ==
            get_source_clauses_for_decision(decision_index, clause_index, decision_id)
    IN  {returned_ids[i] : i \in 1..Len(returned_ids)}

\* C9: every evidence item recorded with a decision is returned by
\* get_source_clauses_for_decision of that decision, and the decision's trace
\* by get_decisions_using_clause of the item, whatever traces were recorded
\* later and whichever clause ids they used again.
C9_RoundTrip ==
    \A t \in DOMAIN decision_traces :
        \A k \in 1..Len(decision_traces[t].source_links) :
            LET link == decision_traces[t].source_links[k]
            IN  /\ link.decision_id = decision_traces[t].metadata.decision_id
                /\ link.source_clause_id
                      \in SourceClauseIds(decision_traces[t].metadata.decision_id)
                /\ t \in get_decisions_using_clause(traceability_links,
                             decision_traces, link.source_clause_id)

\* two decisions have been recorded on the same clause, the first with two
\* evidence items
C9_ClauseUsedTwice ==
    /\ pc = "idle"
    /\ \E t1 \in DOMAIN decision_traces : \E t2 \in DOMAIN decision_traces :
          /\ t1 < t2
          /\ Len(decision_traces[t1].source_links) = 2
          /\ Len(decision_traces[t2].source_links) > 0
          /\ decision_traces[t1].source_links[1].source_clause_id
                = decision_traces[t2].source_links[1].source_clause_id
          /\ {t1, t2} \subseteq
                get_decisions_using_clause(traceability_links, decision_traces,
                    decision_traces[t1].source_links[1].source_clause_id)

\* a stored trace as a reader sees it: its decision_path read through the
\* reference
TraceView(t) ==
    [decision_traces[t] EXCEPT !.decision_path = paths[@]]

\* C10: no step changes a field of a DecisionTrace once it is stored.
C10_TraceImmutable ==
    [][\A t \in DOMAIN decision_traces : TraceView(t)' = TraceView(t)]_vars

----------------------------------------------------------------------------
(* The retained history of the MappingAgent (Spec)                         *)

\* the cap a bounded history of traces would have, and the cap of the links,
\* scaled down to the number of queries the model runs (the histories the
\* code does cap hold 1000 decisions and 10000 audit events)
TraceCap == 1
LinkCap == 2

\* C11: the MappingAgent never retains more DecisionTraces than the cap, nor
\* more traceability links than theirs: a trace recorded past the cap evicts
\* the oldest one.
C11_HistoryCapped ==
    /\ Cardinality(DOMAIN decision_traces) <= TraceCap
    /\ Cardinality(DOMAIN traceability_links) <= LinkCap

----------------------------------------------------------------------------
(* Properties of the index and of retrieval (SpecIndex)                    *)

\* the retrieval t has returned
retrieved(t) == searches[t].pc = "done"

\* the scores of a result never rise along it
NonIncreasing(result) ==
    \A i, j \in 1..Len(result) :
        i < j => result[i].relevance_score >= result[j].relevance_score

\* C12: the evidence list retrieve_relevant_documents returns is in
\* non-increasing relevance order and has at most max_results items, with the
\* re-rank pass off and after the re-rank pass boosted and re-sorted it.
C12_RankedAndCapped ==
    \A t \in SearchIds :
        retrieved(t) =>
            /\ NonIncreasing(searches[t].result)
            /\ Len(searches[t].result) <= config.max_results

\* C12 as the code has it: the list is always in non-increasing relevance
\* order, and it has at most max_results items when max_results is not
\* negative; under a negative max_results the slice of line 140 drops that
\* many items from the end of the list instead.
C12_RankedAndCappedFromZero ==
    \A t \in SearchIds :
        retrieved(t) =>
            /\ NonIncreasing(searches[t].result)
            /\ config.max_results >= 0 => Len(searches[t].result) <= config.max_results
            /\ Len(searches[t].result) <= Max(Len(documents) + Min(config.max_results, 0), 0)

\* a returned list of three in which the boost of the re-rank pass (0.12 for
\* the age and 0.1 for the amount found in the chunk) carried the second item
\* past the third
C12_BoostReordered ==
    \E t \in SearchIds :
        /\ retrieved(t)
        /\ config.rerank_results
        /\ Len(searches[t].result) = 3
        /\ searches[t].result[2].clause_id = "policy.txt_p0_c1"
        /\ searches[t].result[2].relevance_score - 220 < searches[t].result[3].relevance_score

\* C13: every evidence item returned has a relevance score within [0, 1] and
\* not below the similarity_threshold of the configuration, whatever
\* RetrievalConfig the agent was given and with re-ranking on or off.
C13_ScoresInRange ==
    \A t \in SearchIds :
        retrieved(t) =>
            \A k \in 1..Len(searches[t].result) :
                /\ searches[t].result[k].relevance_score >= 0
                /\ searches[t].result[k].relevance_score <= One
                /\ searches[t].result[k].relevance_score >= config.similarity_threshold

\* C14: no search is made under a configuration whose dense_weight and
\* sparse_weight do not add up to 1.0: such a configuration is rejected
\* before an agent uses it.
C14_WeightsSumToOne ==
    \A t \in SearchIds :
        searches[t].pc # "idle" => config.dense_weight + config.sparse_weight = WeightOne

\* C16: when chunks of a document fail to be embedded, the count that
\* process_document reports is the number of chunks that were added, not the
\* number the chunker produced.
C16_PartialCountReported ==
    \A t \in IngestIds :
        ingests[t].pc = "done" => ingests[t].result.chunks = ingests[t].success_count

\* C17: no step of a query, whether it starts, completes, fails or abandons
\* the retrieval, changes the chunk map, the dense-vector map or the
\* sparse-vector map of the vector store.
C17_QueryReadOnly ==
    [][searches' # searches =>
          /\ documents' = documents
          /\ dense_vectors' = dense_vectors
          /\ sparse_vectors' = sparse_vectors]_vars

\* one query returned evidence from a store that holds chunks, and another
\* step of a query (here the only other one would be abandoned) left it so
C17_QueryReturnedEvidence ==
    \E t \in SearchIds :
        /\ retrieved(t)
        /\ Len(searches[t].result) > 0
        /\ Len(documents) >= Len(searches[t].result)

----------------------------------------------------------------------------
(* Rules whose evaluation fails                                            *)

\* PolicyRule.evaluate reaches its except branch (lines 55-57): the
\* conditions are no mapping, or the first condition that is not met throws
evaluation_fails(rule, context) ==
    \/ ~rule.mapping
    \/ \E i \in 1..Len(rule.conditions) :
          /\ check_condition(rule.conditions[i].type, rule.conditions[i].value, context) = "raise"
          /\ \A j \in 1..(i - 1) :
                check_condition(rule.conditions[j].type, rule.conditions[j].value, context) = "T"

\* C19: once validate_claim has returned, every rule whose evaluation failed
\* on a malformed condition is listed as satisfied, not as violated, and the
\* result names every rule among the satisfied or the violated ones.
C19_MalformedRuleSatisfied ==
    (pc \in {"validated", "decided"} /\ validation_result # Unset) =>
        /\ Len(validation_result.satisfied_rules) + Len(validation_result.violated_rules)
              = Len(rules)
        /\ \A i \in 1..Len(rules) :
              evaluation_fails(rules[i], entities) =>
                  /\ validation_result.validation_details[rules[i].rule_id] = "satisfied"
                  /\ \E k \in 1..Len(validation_result.satisfied_rules) :
                        validation_result.satisfied_rules[k] = rules[i].name
                  /\ \A k \in 1..Len(validation_result.violated_rules) :
                        validation_result.violated_rules[k] # rules[i].name

\* what the code does with such a rule: every rule is evaluated and named in
\* the result, and the rule that failed is listed as violated
C19_MalformedRuleViolated ==
    (pc \in {"validated", "decided"} /\ validation_result # Unset) =>
        /\ Len(validation_result.satisfied_rules) + Len(validation_result.violated_rules)
              = Len(rules)
        /\ \A i \in 1..Len(rules) :
              evaluation_fails(rules[i], entities) =>
                  /\ validation_result.validation_details[rules[i].rule_id] = "violated"
                  /\ \E k \in 1..Len(validation_result.violated_rules) :
                        validation_result.violated_rules[k] = rules[i].name

\* a malformed rule was added and validate_claim has returned
C19_MalformedRuleEvaluated ==
    /\ pc = "validated"
    /\ validation_result # Unset
    /\ \E i \in 1..Len(rules) : ~rules[i].mapping

----------------------------------------------------------------------------
(* One value for each parsed field                                         *)

\* C20: once parse_query has returned, every field of the entities holds one
\* string, the first match of the field's pattern in the query, also where
\* the pattern matches several times; no field holds a list of matches.
C20_FirstMatchPerField ==
    pc # "idle" =>
        \A entity_type \in DOMAIN entities :
            entities[entity_type] = [s |-> entity_matches(query)[entity_type][1]]

\* what the code yields: a field is a string where its pattern matched once
\* and the list of all the matches, in order, where it matched several times
C20_AllMatchesPerField ==
    pc # "idle" =>
        /\ DOMAIN entities = {x \in EntityTypes : Len(entity_matches(query)[x]) > 0}
        /\ \A entity_type \in DOMAIN entities :
              IF Len(entity_matches(query)[entity_type]) = 1
              THEN entities[entity_type] = [s |-> entity_matches(query)[entity_type][1]]
              ELSE entities[entity_type] = [l |-> entity_matches(query)[entity_type]]

----------------------------------------------------------------------------
(* The sizes of the chunks                                                 *)

\* C15: every chunk create_chunks returns is no longer than max_chunk_size,
\* and every chunk that is neither the first nor the last is no shorter than
\* min_chunk_size, also where a chunk starts with the overlap of the one
\* before it and where one sentence is longer than max_chunk_size.
C15_ChunkSizesBounded ==
    pc = "chunked" =>
        \A i \in 1..Len(created_chunks) :
            /\ Len(created_chunks[i].content) <= chunking_config.max_chunk_size
            /\ (1 < i /\ i < Len(created_chunks)) =>
                  Len(created_chunks[i].content) >= chunking_config.min_chunk_size

\* the half of it that holds: of several chunks none is shorter than
\* min_chunk_size
C15_MinimumKept ==
    (pc = "chunked" /\ Len(created_chunks) > 1) =>
        \A i \in 1..Len(created_chunks) :
            Len(created_chunks[i].content) >= chunking_config.min_chunk_size

\* a chunk that starts with the overlap of the chunk before it is too long
C15_OverlapOverflows ==
    /\ pc = "chunked"
    /\ \A i \in 1..Len(extract_sentences(preprocess_content(document_content), chunking_config)) :
          Len(extract_sentences(preprocess_content(document_content), chunking_config)[i])
              <= chunking_config.max_chunk_size
    /\ \E i \in 1..Len(created_chunks) : Len(created_chunks[i].content) > chunking_config.max_chunk_size

----------------------------------------------------------------------------
(* The steps of process_query                                              *)

\* the steps of process_query in the order of the code
StepOrder ==
    <<"query_parsing", "document_retrieval", "policy_validation", "decision_making",
      "traceability_mapping">>

\* how many steps have been logged at each position of the call
StepsLogged ==
    [parsed |-> 1, retrieved |-> 2, checked |-> 3, made |-> 4, traced |-> 5]

\* C21: in every process_query call the log holds the steps in the order
\* query_parsing, document_retrieval, policy_validation, decision_making,
\* traceability_mapping, one entry a step; every entry but the last is
\* completed, so no step has started before the one before it completed, and
\* the last one is started while its step runs and completed once it is over.
C21_StepsInOrder ==
    /\ \A k \in 1..Len(paths) :
          /\ Len(paths[k]) \in 1..Len(StepOrder)
          /\ \A i \in 1..Len(paths[k]) :
                /\ paths[k][i].step = StepOrder[i]
                /\ paths[k][i].status \in {"started", "completed"}
                /\ i < Len(paths[k]) => paths[k][i].status = "completed"
          /\ k # decision_path =>
                /\ Len(paths[k]) = Len(StepOrder)
                /\ paths[k][Len(StepOrder)].status = "completed"
    /\ pc # "idle" =>
          /\ decision_path = Len(paths)
          /\ Len(paths[decision_path]) = StepsLogged[pc]
          /\ paths[decision_path][StepsLogged[pc]].status =
                (IF pc = "traced" THEN "started" ELSE "completed")

\* one call has returned with its five steps completed and the next call is
\* in its last step
C21_SecondCallInLastStep ==
    /\ pc = "traced"
    /\ Len(paths) = 2
    /\ \A i \in 1..Len(StepOrder) : paths[1][i].status = "completed"
    /\ paths[2][Len(StepOrder)].status = "started"

----------------------------------------------------------------------------
(* The confidence of a decision                                            *)

\* three times the mean of the three factor impacts of the result
ImpactSum ==
    decision_result.decision_factors[1].confidence_impact
        + decision_result.decision_factors[2].confidence_impact
        + decision_result.decision_factors[3].confidence_impact

\* C22: on the non-error path the confidence is the mean of the impacts of
\* the validation, the evidence-support and the entity-completeness factor,
\* plus 0.1 on the approved and on the rejected branch, minus 0.2 on the
\* requires_review branch and minus 0.15 on the pending branch, clamped to
\* [0, 1].
C22_ConfidenceOfBranch ==
    (decided /\ ~errored) =>
        /\ Len(decision_result.decision_factors) = 3
        /\ decision_result.decision_factors[1] = evaluate_validation_factor(validation_result)
        /\ decision_result.decision_factors[2].factor_name = "clause_support"
        /\ decision_result.decision_factors[3].factor_name = "entity_completeness"
        /\ 3 * decision_result.confidence_score =
              Max(0, Min(3 * Unit,
                  ImpactSum
                    + (CASE decision_result.decision = "approved" -> 3 * 30
                         [] decision_result.decision = "rejected" -> 3 * 30
                         [] decision_result.decision = "requires_review" -> 0 - 3 * 60
                         [] decision_result.decision = "pending" -> 0 - 3 * 45)))

\* a decision sent to review with a confidence 0.2 below the mean of its
\* factors
C22_ReviewLowersConfidence ==
    /\ decided /\ ~errored
    /\ decision_result.decision = "requires_review"
    /\ 3 * decision_result.confidence_score = ImpactSum - 3 * 60
    /\ decision_result.confidence_score > 0

----------------------------------------------------------------------------
(* The evidence-support factor                                             *)

\* how many evidence items of the call have the sentiment
ItemsOf(sentiment) ==
    Cardinality({i \in 1..Len(source_clauses) :
                    analyze_clause_sentiment(source_clauses[i], entities) = sentiment})

\* C23: the evidence-support factor of a decision: with no evidence it does
\* not support coverage and has impact 0.3; with more positive than negative
\* items it supports coverage with impact min(1.0, 0.7 + 0.1 * positive); with
\* more negative than positive items it does not support coverage and has
\* impact 0.3; on a tie, all items neutral included, it does not support
\* coverage and has impact 0.5.
C23_EvidenceSupport ==
    (decided /\ ~errored) =>
        /\ decision_result.decision_factors[2].factor_name = "clause_support"
        /\ decision_result.decision_factors[2].supports_coverage =
              (Len(source_clauses) > 0 /\ ItemsOf("positive") > ItemsOf("negative"))
        /\ decision_result.decision_factors[2].confidence_impact =
              (CASE Len(source_clauses) = 0 -> 90
                 [] Len(source_clauses) > 0 /\ ItemsOf("positive") > ItemsOf("negative") ->
                        Min(Unit, 210 + 30 * ItemsOf("positive"))
                 [] Len(source_clauses) > 0 /\ ItemsOf("negative") > ItemsOf("positive") -> 90
                 [] OTHER -> 150)

\* four positive items: the impact 0.7 + 0.4 is cut to 1.0
C23_ImpactCut ==
    /\ decided /\ ~errored
    /\ ItemsOf("positive") = 4
    /\ decision_result.decision_factors[2].confidence_impact = Unit

\* one positive and one negative item tie: no support, impact 0.5
C23_TieOfOneEach ==
    /\ decided /\ ~errored
    /\ Len(source_clauses) = 2
    /\ ItemsOf("positive") = 1
    /\ ItemsOf("negative") = 1
    /\ decision_result.decision_factors[2].supports_coverage = FALSE
    /\ decision_result.decision_factors[2].confidence_impact = 150

----------------------------------------------------------------------------
(* The amount of an approved decision                                      *)

\* the keywords that name a procedure, and the generic one
SpecificAmounts ==
    <<[proc_type |-> "cardiac", amount |-> 500000],
      [proc_type |-> "knee", amount |-> 150000],
      [proc_type |-> "hip", amount |-> 200000],
      [proc_type |-> "dental", amount |-> 25000],
      [proc_type |-> "eye", amount |-> 50000]>>

\* the table value of a procedure text: that of the specific keyword it
\* holds, else that of 'surgery', else the default
BaseAmount(procedure) ==
    IF \E i \in 1..Len(SpecificAmounts) : Contains(SpecificAmounts[i].proc_type, procedure)
    THEN SpecificAmounts[CHOOSE i \in 1..Len(SpecificAmounts) :
                            /\ Contains(SpecificAmounts[i].proc_type, procedure)
                            /\ \A j \in 1..(i - 1) :
                                  ~Contains(SpecificAmounts[j].proc_type, procedure)].amount
    ELSE IF Contains("surgery", procedure) THEN 100000
    ELSE 75000

\* ten times the age factor: 1.2 above 60, 0.9 below 30, else 1.0
AgeFactor(age) == IF age > 60 THEN 12 ELSE IF age < 30 THEN 9 ELSE 10

\* C24: the amount of an approved decision with a procedure is the table
\* value of the procedure keyword times the age factor, where a procedure that
\* names a specific keyword together with 'surgery' gets the amount of the
\* specific keyword.
C24_SpecificKeywordAmount ==
    (decided /\ ~errored /\ decision_result.decision = "approved"
        /\ "procedure" \in DOMAIN entities) =>
        decision_result.amount =
            Some((BaseAmount(Lower(PyStr(entities["procedure"])))
                    * (IF "age" \in DOMAIN entities
                       THEN AgeFactor(age_of(entities, 40).v) ELSE 10)) \div 10)

\* what the code pays: the amount of the first keyword of procedure_amounts,
\* in the order of the dict, that the procedure holds, so 'surgery' goes
\* before 'dental' and 'eye'
C24_FirstKeywordInDictOrder ==
    (decided /\ ~errored /\ decision_result.decision = "approved"
        /\ "procedure" \in DOMAIN entities) =>
        \E base \in {75000} \cup {procedure_amounts[i].amount : i \in 1..Len(procedure_amounts)} :
            /\ decision_result.amount =
                  Some((base * (IF "age" \in DOMAIN entities
                                THEN AgeFactor(age_of(entities, 40).v) ELSE 10)) \div 10)
            /\ \/ /\ base = 75000
                  /\ \A i \in 1..Len(procedure_amounts) :
                        ~Contains(procedure_amounts[i].proc_type,
                                  Lower(PyStr(entities["procedure"])))
               \/ \E i \in 1..Len(procedure_amounts) :
                     /\ base = procedure_amounts[i].amount
                     /\ Contains(procedure_amounts[i].proc_type,
                                 Lower(PyStr(entities["procedure"])))
                     /\ \A j \in 1..(i - 1) :
                           ~Contains(procedure_amounts[j].proc_type,
                                     Lower(PyStr(entities["procedure"])))

----------------------------------------------------------------------------
(* The risk of a decision                                                  *)

\* the age is above 70 or the procedure holds a high-risk keyword
HighRisk ==
    \/ "age" \in DOMAIN entities /\ age_of(entities, 0).v > 70
    \/ /\ "procedure" \in DOMAIN entities
       /\ \E kw \in {"surgery", "cardiac", "brain", "cancer", "transplant"} :
             Contains(kw, Lower(PyStr(entities["procedure"])))

\* the policy is younger than 6 months of 30 days, in whatever unit its
\* duration is told
YoungPolicy ==
    /\ "policy_duration" \in DOMAIN entities
    /\ DurationRead[entities.policy_duration.s] < DaysOf(6, "month")

\* C25: the overall risk of a decision is 'high' when the age is above 70 or
\* the procedure holds a high-risk keyword, also when the policy is young;
\* otherwise it is 'medium' when the policy duration is below 6 months, be it
\* told in months, weeks or days; otherwise it is 'low'.
C25_RiskOfDuration ==
    (decided /\ ~errored) =>
        decision_result.risk_assessment.overall_risk =
            (IF HighRisk THEN "high" ELSE IF YoungPolicy THEN "medium" ELSE "low")

\* what the code assesses: only a duration told in months makes the risk
\* 'medium', and a 'high' risk stays
C25_RiskOfMonthsOnly ==
    (decided /\ ~errored) =>
        decision_result.risk_assessment.overall_risk =
            (IF HighRisk THEN "high"
             ELSE IF YoungPolicy /\ Contains("month", Lower(entities.policy_duration.s))
                  THEN "medium"
             ELSE "low")

----------------------------------------------------------------------------
(* The text _chunk_paragraph gathers                                       *)

\* the paragraph create_chunks hands to _chunk_paragraph
ChunkedParagraph ==
    extract_paragraphs(preprocess_content(document_content), chunking_config)[1]

\* C26: _chunk_paragraph drops no text it has gathered: every sentence of a
\* paragraph longer than max_chunk_size stands in some chunk it returns, the
\* text shorter than min_chunk_size and the last text gathered included.
C26_NoSentenceDropped ==
    (/\ pc = "chunked"
     /\ Len(extract_paragraphs(preprocess_content(document_content), chunking_config)) > 0
     /\ Len(ChunkedParagraph) > chunking_config.max_chunk_size) =>
        \A i \in 1..Len(extract_sentences(ChunkedParagraph, chunking_config)) :
            \E k \in 1..Len(chunk_paragraph(ChunkedParagraph, "policy.txt", chunking_config)) :
                Contains(extract_sentences(ChunkedParagraph, chunking_config)[i],
                         chunk_paragraph(ChunkedParagraph, "policy.txt", chunking_config)[k].content)

----------------------------------------------------------------------------
(* The agents after many calls (SpecRecords)                               *)
(*                                                                         *)
(* make_decision and create_decision_trace are called one after the other, *)
(* as process_query calls them, on agents that are new or have served      *)
(* calls before.                                                           *)

\* the most calls followed from a start
MaxCalls == 2

\* the calls the agents have served at the start: none, or one fewer than
\* the decision history, or than the audit log, holds
EarlierCalls == {0, decision_history_cap - 1, audit_log_cap - 1}

NoViolation ==
    [is_valid |-> TRUE, violated_rules |-> <<>>, satisfied_rules |-> <<>>,
     warnings |-> <<>>, validation_details |-> <<>>]

ExclusionViolated ==
    [is_valid |-> FALSE,
     violated_rules |-> <<"Excluded Procedures", "Procedure Coverage",
                          "Pre-authorization Required">>,
     satisfied_rules |-> <<>>, warnings |-> <<>>, validation_details |-> <<>>]

\* the arguments of a call; no clause was retrieved for any
RequestKnee ==
    [entities |-> Entities(Str("46"), Str("knee surgery"), Str("Pune"), Str("4 months")),
     validation_result |-> NoViolation]
RequestCosmetic ==
    [entities |-> Entities(Str("46"), Str("cosmetic surgery"), Str("Pune"), Absent),
     validation_result |-> ExclusionViolated]
\* the age is a list: make_decision raises and returns the default rejection
RequestMalformed ==
    [entities |-> Entities([l |-> <<"46", "30">>], Str("knee surgery"), Str("Pune"), Absent),
     validation_result |-> NoViolation]

Requests == {RequestKnee, RequestCosmetic, RequestMalformed}

\* make_decision on the two requests of the earlier calls
MadeKnee ==
    make_decision(<<>>, RequestKnee.entities, <<>>, RequestKnee.validation_result, "coverage")
MadeCosmetic ==
    make_decision(<<>>, RequestCosmetic.entities, <<>>, RequestCosmetic.validation_result,
                  "coverage")

\* the earlier calls took the two requests in turn; EarlierMade holds what
\* make_decision returned for the one and the other
earlier_request(k) == IF k % 2 = 1 THEN RequestKnee ELSE RequestCosmetic
EarlierMade == <<MadeKnee, MadeCosmetic>>
earlier_made(k, made) == IF k % 2 = 1 THEN made[1] ELSE made[2]

\* the last n elements of a sequence, all of them if it has fewer
MostRecent(s, n) == SubSeq(s, Len(s) - Min(Len(s), n) + 1, Len(s))

\* the DecisionTrace create_decision_trace stored at the k-th earlier call
earlier_trace(k, made) ==
    [trace_id |-> 2 * k - 1,
     query |-> "",
     decision |-> earlier_made(k, made).result.decision,
     entities |-> earlier_request(k).entities,
     confidence_score |-> earlier_made(k, made).result.confidence_score,
     source_links |-> <<>>,
     decision_path |-> 0,
     metadata |-> [decision_id |-> 2 * k,
                   amount |-> earlier_made(k, made).result.amount,
                   risk_assessment |-> earlier_made(k, made).result.risk_assessment]]

\* the audit event of the k-th earlier call
earlier_event(k, made) ==
    [event_type |-> "decision_trace_created",
     event_data |-> [trace_id |-> 2 * k - 1, decision_id |-> 2 * k,
                     decision |-> earlier_made(k, made).result.decision,
                     source_clauses_count |-> 0],
     agent |-> "mapping_agent"]

\* the agents after n earlier calls
AfterCalls(n, made) ==
    /\ decision_history =
          MostRecent([k \in 1..n |-> earlier_made(k, made).decision_history[1]],
                     decision_history_cap)
    /\ clause_index = <<>>
    /\ document_index = <<>>
    /\ decision_index = [d \in {2 * k : k \in 1..n} |-> <<>>]
    /\ traceability_links = <<>>
    /\ decision_traces = [t \in {2 * k - 1 : k \in 1..n} |-> earlier_trace((t + 1) \div 2, made)]
    /\ audit_log = MostRecent([k \in 1..n |-> earlier_event(k, made)], audit_log_cap)
    /\ uuid_next = 2 * n

\* the calls create_decision_trace has served
CallsServed == Cardinality(DOMAIN decision_traces)

\* MappingAgent.create_decision_trace on the decision just made, after which
\* the caller has the arguments of the next call
CreateDecisionTrace(request) ==
    /\ pc = "decided"
    /\ \E n \in EarlierCalls : n <= CallsServed /\ CallsServed < n + MaxCalls
    /\ LET new_trace_id == uuid_next + 1
           decision_id == uuid_next + 2
           indexed == index_clauses([clause_index |-> clause_index,
                                     document_index |-> document_index],
                                    source_clauses)
           source_links == source_links_of(decision_id, decision_id, source_clauses,
                                           decision_result)
           clause_ids == [k \in 1..Len(source_clauses) |-> source_clauses[k].clause_id]
       IN  /\ uuid_next' = decision_id + Len(source_clauses)
           /\ clause_index' = indexed.clause_index
           /\ document_index' = indexed.document_index
           /\ traceability_links' = store_links(traceability_links, source_links)
           /\ decision_index' =
                 link_decision_to_clauses(decision_index, decision_id, clause_ids)
           /\ decision_traces' =
                 Update(decision_traces,
                        [t \in {new_trace_id} |->
                            decision_trace(new_trace_id, decision_id, source_links)])
           /\ audit_log' =
                 log_audit_event(audit_log, "decision_trace_created",
                     [trace_id |-> new_trace_id, decision_id |-> decision_id,
                      decision |-> decision_result.decision,
                      source_clauses_count |-> Len(source_clauses)])
           /\ trace_id' = new_trace_id
    /\ entities' = request.entities
    /\ validation_result' = request.validation_result
    /\ decision_result' = Unset
    /\ pc' = "validated"
    /\ UNCHANGED <<agent_vars, query, source_clauses, decision_path, paths,
                   queries_processed, index_vars, chunker_vars>>

InitRecords ==
    /\ rules = default_rules
    /\ \E n \in EarlierCalls : \E made \in {EarlierMade} : AfterCalls(n, made)
    /\ pc = "validated"
    /\ query = ""
    /\ \E request \in Requests :
          /\ entities = request.entities
          /\ validation_result = request.validation_result
    /\ source_clauses = <<>>
    /\ decision_result = Unset
    /\ paths = <<>>
    /\ decision_path = 0
    /\ trace_id = 0
    /\ queries_processed = 0
    /\ IdleIndex
    /\ IdleChunker

NextRecords ==
    \/ MakeDecision
    \/ \E request \in Requests : CreateDecisionTrace(request)

SpecRecords == InitRecords /\ [][NextRecords]_vars

\* the earlier calls are calls: from new agents, calls that take the two
\* requests in turn lead to the agents of AfterCalls
EarlierCallsAsServed ==
    (/\ pc = "validated"
     /\ CallsServed <= MaxCalls
     /\ \A t \in DOMAIN decision_traces :
           decision_traces[t].entities = earlier_request((t + 1) \div 2).entities) =>
        \E made \in {EarlierMade} : AfterCalls(CallsServed, made)

\* the records of a step: the history grows by the decision made, unless
\* make_decision raised, and the log by the event of the trace stored
RecordsOfStep ==
    /\ Len(decision_history') <= decision_history_cap
    /\ Len(audit_log') <= audit_log_cap
    /\ (pc = "validated" /\ pc' = "decided") =>
          /\ audit_log' = audit_log
          /\ decision_history' =
                IF errored' THEN decision_history
                ELSE MostRecent(Append(decision_history,
                                       [entities |-> entities,
                                        decision |-> decision_result'.decision,
                                        confidence |-> decision_result'.confidence_score,
                                        query_type |-> "coverage",
                                        amount |-> decision_result'.amount]),
                                decision_history_cap)
    /\ (pc = "decided" /\ pc' = "validated") =>
          /\ decision_history' = decision_history
          /\ audit_log' = MostRecent(Append(audit_log, audit_log'[Len(audit_log')]),
                                     audit_log_cap)
          /\ \A i \in 1..Len(audit_log') :
                audit_log'[i].event_data.trace_id =
                    2 * (Cardinality(DOMAIN decision_traces') - Len(audit_log') + i) - 1

\* C27: decision_history holds at most 1000 records, the most recent
\* decisions made without an exception, in the order they were made, and
\* audit_log at most 10000 events, the most recent ones in their order.
C27_MostRecentRecords == [][RecordsOfStep]_vars

\* the oldest decision and the oldest event have been dropped
C27_OldestDropped ==
    /\ pc = "validated"
    /\ CallsServed > audit_log_cap
    /\ Len(audit_log) = audit_log_cap
    /\ audit_log[1].event_data.trace_id > 1
    /\ Len(decision_history) = decision_history_cap
    /\ decision_history[decision_history_cap].entities = RequestCosmetic.entities
    /\ decision_history[decision_history_cap - 1].entities = RequestKnee.entities

----------------------------------------------------------------------------
(* The policy duration from the query to the waiting-period rule           *)

\* the age of the policy a query tells, in days, read by hand
QueriedDuration == [q \in {Query1} |-> DaysOf(3, "month")]

\* process_query has validated the entities of its query
checked == pc \in {"checked", "made", "traced"}

\* C28: the unit of the policy duration survives from parse_query to
\* validate_claim: for a query that tells of an 'N-month-old insurance policy'
\* the waiting-period rule is evaluated on N * 30 days, so that a policy of 3
\* months or more satisfies the waiting period of 90 days.
C28_UnitSurvives ==
    (checked /\ query \in DOMAIN QueriedDuration) =>
        ((validation_result.validation_details["waiting_period"] = "satisfied")
            <=> (QueriedDuration[query] >= 90))

\* what the code does: the entity is the number alone, and the rule takes it
\* for a number of days
C28_NumberTakenAsDays ==
    (checked /\ query = Query1) =>
        /\ entities.policy_duration = Str("3")
        /\ validation_result.validation_details["waiting_period"] = "violated"

----------------------------------------------------------------------------
(* Exclusion phrases in the evidence                                       *)

\* the places where term t stands in text s
Occurrences(t, s) == {i \in 1..(Len(s) - Len(t) + 1) : SubSeq(s, i, i + Len(t) - 1) = t}

\* the coverage keywords that stand somewhere in the text outside every
\* exclusion keyword
CoverageOutsideExclusion(text) ==
    {p \in 1..Len(positive_terms) :
        \E i \in Occurrences(positive_terms[p], text) :
            \A n \in 1..Len(negative_terms) :
                \A j \in Occurrences(negative_terms[n], text) :
                    ~(j <= i /\ i + Len(positive_terms[p]) <= j + Len(negative_terms[n]))}

\* the clause speaks of an entity of the claim by its value, and all it says
\* of coverage is an exclusion
ExclusionOnly(clause) ==
    /\ \E k \in DOMAIN entities :
          IsStr(entities[k]) /\ Contains(Lower(entities[k].s), Lower(clause.clause_text))
    /\ \E n \in 1..Len(negative_terms) : Contains(negative_terms[n], Lower(clause.clause_text))
    /\ CoverageOutsideExclusion(Lower(clause.clause_text)) = {}

\* C29: a clause of the evidence that mentions an entity by its value and
\* whose only language is an exclusion phrase, like 'Knee surgery is not
\* covered', is classified negative: the 'covered' of 'not covered' is not
\* counted as a coverage keyword.  Alone, it makes the evidence negative.
C29_ExclusionIsNegative ==
    (decided /\ ~errored) =>
        /\ \A i \in 1..Len(source_clauses) :
              ExclusionOnly(source_clauses[i]) =>
                  analyze_clause_sentiment(source_clauses[i], entities) = "negative"
        /\ (Len(source_clauses) = 1 /\ ExclusionOnly(source_clauses[1])) =>
              decision_result.decision_factors[2].status = "negative"

\* what the code does with 'Knee surgery is not covered': one coverage and one
\* exclusion keyword, a neutral clause
C29_NotCoveredIsNeutral ==
    (decided /\ ~errored /\ source_clauses = <<ClauseNotCovered>>
        /\ "procedure" \in DOMAIN entities /\ entities.procedure = Str("knee surgery")) =>
        /\ ExclusionOnly(ClauseNotCovered)
        /\ analyze_clause_sentiment(ClauseNotCovered, entities) = "neutral"
        /\ decision_result.decision_factors[2].status = "neutral"

----------------------------------------------------------------------------
(* The audit queries of the MappingAgent                                   *)

\* what the MappingAgent keeps of the clauses, documents, decisions, links
\* and traces
MappingRecords ==
    <<clause_index, document_index, decision_index, traceability_links, decision_traces>>

\* C30: the audit queries only read: a call of get_source_clauses_for_decision
\* (as of get_decision_trace, get_decisions_using_clause and
\* generate_audit_report) leaves the clause index, the document index, the
\* decision index, the links and the traces as they were.
C30_AuditQueriesRead ==
    [][(\E d \in DOMAIN decision_index : GetSourceClausesForDecision(d))
          => UNCHANGED MappingRecords]_vars

\* what the query writes: of the records only the clause index changes, and
\* of a clause only its entry 'traceability_links'
C30_QueryAnnotatesClauses ==
    [][(\E d \in DOMAIN decision_index : GetSourceClausesForDecision(d)) =>
          /\ UNCHANGED <<document_index, decision_index, traceability_links, decision_traces>>
          /\ DOMAIN clause_index' = DOMAIN clause_index
          /\ \A c \in DOMAIN clause_index :
                \A f \in DOMAIN clause_index[c] :
                    f # "traceability_links" => clause_index'[c][f] = clause_index[c][f]]_vars

====
